---- MODULE Spec2Model ----
(***************************************************************************)
(* Model of the CV study sorter: the master taxonomy parser, the unsorted  *)
(* list parser and the matching engine categorize_with_master, in the      *)
(* current two-master form (Processors/sorterv2.py, version "new") and the *)
(* single-master form it replaced (Processors/old/sorterv2.py, "old").     *)
(*                                                                         *)
(* Texts are sequences of one-character strings, so that the regular       *)
(* expressions, str.strip/split/lower/translate and difflib's ratio are    *)
(* computed character by character as the Python code computes them.      *)
(* Scores are exact rationals <<numerator, denominator>>.                  *)
(***************************************************************************)
EXTENDS Integers, Sequences, FiniteSets, TLC

\* ------------------------------------------------------------------------
\* Characters
\* ------------------------------------------------------------------------
UPPER == <<"A","B","C","D","E","F","G","H","I","J","K","L","M",
           "N","O","P","Q","R","S","T","U","V","W","X","Y","Z">>
LOWER == <<"a","b","c","d","e","f","g","h","i","j","k","l","m",
           "n","o","p","q","r","s","t","u","v","w","x","y","z">>
DIGITS == {"0","1","2","3","4","5","6","7","8","9"}
PUNCTUATION == {"!","\"","#","$","%","&","'","(",")","*","+",",","-",".","/",
                ":",";","<","=",">","?","@","[","\\","]","^","_","{","|","}","~"}

\* (string.punctuation without the backquote, which the texts here never hold)

IsSpace(c) == c \in {" ", "\t"}
IsDigit(c) == c \in DIGITS
IsUpper(c) == \E k \in 1..26 : UPPER[k] = c
IsLower(c) == \E k \in 1..26 : LOWER[k] = c
IsWord(c)  == IsUpper(c) \/ IsLower(c) \/ IsDigit(c) \/ c = "_"
lower_char(c) == IF IsUpper(c) THEN LOWER[CHOOSE k \in 1..26 : UPPER[k] = c] ELSE c

\* Python's None, kept apart from every text (a text holds one-character strings)
None == <<"None">>

\* ------------------------------------------------------------------------
\* str methods used by the sorter
\* ------------------------------------------------------------------------
RECURSIVE lstrip(_)
lstrip(s) == IF s # <<>> /\ IsSpace(Head(s)) THEN lstrip(Tail(s)) ELSE s

RECURSIVE rstrip(_)
rstrip(s) == IF s # <<>> /\ IsSpace(s[Len(s)]) THEN rstrip(SubSeq(s, 1, Len(s) - 1)) ELSE s

strip(s) == rstrip(lstrip(s))

lower(s) == [k \in 1..Len(s) |-> lower_char(s[k])]

\* length of the first whitespace-free run of a text that starts with one
WordLen(t) ==
    IF \E k \in 1..Len(t) : IsSpace(t[k])
    THEN (CHOOSE k \in 1..Len(t) : IsSpace(t[k]) /\ \A j \in 1..(k - 1) : ~IsSpace(t[j])) - 1
    ELSE Len(t)

RECURSIVE split(_)
split(s) ==
    LET t == lstrip(s) IN
    IF t = <<>> THEN <<>>
    ELSE <<SubSeq(t, 1, WordLen(t))>> \o split(SubSeq(t, WordLen(t) + 1, Len(t)))

RECURSIVE join(_)
join(ws) ==
    IF ws = <<>> THEN <<>>
    ELSE IF Len(ws) = 1 THEN ws[1]
    ELSE ws[1] \o <<" ">> \o join(Tail(ws))

clean_space_tabs(text) ==
    LET t == [k \in 1..Len(text) |-> IF text[k] = "\t" THEN " " ELSE text[k]]
    IN join(split(t))

\* YEAR_LINE = ^\s*(\d{4})\b
YEAR_LINE(text) ==
    LET t == lstrip(text) IN
    /\ Len(t) >= 4
    /\ \A k \in 1..4 : IsDigit(t[k])
    /\ (Len(t) = 4 \/ ~IsWord(t[5]))

extract_year(text) == IF YEAR_LINE(text) THEN SubSeq(lstrip(text), 1, 4) ELSE None

\* re.sub(r'^\s*\d{4}\s*', '', text)
SubLeadingYear(text) ==
    LET t == lstrip(text) IN
    IF Len(t) >= 4 /\ \A k \in 1..4 : IsDigit(t[k])
    THEN lstrip(SubSeq(t, 5, Len(t)))
    ELSE text

strip_leading_year(text) == IF YEAR_LINE(text) THEN SubLeadingYear(text) ELSE text

\* MULTI_X = x{3,} (IGNORECASE), substituted by ''
RECURSIVE XRun(_)
XRun(s) == IF s # <<>> /\ Head(s) \in {"x", "X"} THEN 1 + XRun(Tail(s)) ELSE 0

RECURSIVE MULTI_X_sub(_)
MULTI_X_sub(s) ==
    IF s = <<>> THEN <<>>
    ELSE IF XRun(s) >= 3 THEN MULTI_X_sub(SubSeq(s, XRun(s) + 1, Len(s)))
    ELSE IF XRun(s) >= 1 THEN SubSeq(s, 1, XRun(s)) \o MULTI_X_sub(SubSeq(s, XRun(s) + 1, Len(s)))
    ELSE <<Head(s)>> \o MULTI_X_sub(Tail(s))

\* t.translate(str.maketrans('', '', string.punctuation))
RemovePunctuation(s) == SelectSeq(s, LAMBDA c : c \notin PUNCTUATION)

normalize_after_year(text) ==
    join(split(RemovePunctuation(MULTI_X_sub(lower(strip_leading_year(text))))))

\* the old engine's normalizer: lower-cases first and strips the year
\* without the word-boundary test
normalize_text(text) ==
    join(split(RemovePunctuation(MULTI_X_sub(SubLeadingYear(lower(text))))))

StartsWith(s, p) == Len(s) >= Len(p) /\ SubSeq(s, 1, Len(p)) = p
DropFirst(s, n) == SubSeq(s, n + 1, Len(s))

\* ------------------------------------------------------------------------
\* Phase headers
\* ------------------------------------------------------------------------
PHASE_I_LABEL == "Phase I"
PHASE_II_IV_LABEL == "Phase II-IV"

\* \s*[:.\-]?\s*$
PhaseTail(r) ==
    LET a == lstrip(r)
        b == IF a # <<>> /\ Head(a) \in {":", ".", "-"} THEN Tail(a) ELSE a
    IN lstrip(b) = <<>>

RECURSIVE SkipSeparators(_)
SkipSeparators(r) ==
    IF r # <<>> /\ Head(r) \in {"-", "/", " "} THEN SkipSeparators(Tail(r)) ELSE r

\* ^\s*phase\s*i\s*[:.\-]?\s*$  and  ^\s*phase\s*1\s*[:.\-]?\s*$  (IGNORECASE)
PHASE_I_RE(t) ==
    /\ StartsWith(t, <<"p","h","a","s","e">>)
    /\ LET r == lstrip(DropFirst(t, 5)) IN
       /\ r # <<>>
       /\ Head(r) \in {"i", "1"}
       /\ PhaseTail(Tail(r))

\* ^\s*phase\s*ii\s*[-/ ]*iv\s*[:.\-]?\s*$  and  ^\s*phase\s*2\s*[-/ ]*4\s*[:.\-]?\s*$
PHASE_II_IV_RE(t) ==
    /\ StartsWith(t, <<"p","h","a","s","e">>)
    /\ LET r == lstrip(DropFirst(t, 5)) IN
       \/ /\ StartsWith(r, <<"i","i">>)
          /\ LET q == SkipSeparators(lstrip(DropFirst(r, 2))) IN
             StartsWith(q, <<"i","v">>) /\ PhaseTail(DropFirst(q, 2))
       \/ /\ StartsWith(r, <<"2">>)
          /\ LET q == SkipSeparators(lstrip(DropFirst(r, 1))) IN
             StartsWith(q, <<"4">>) /\ PhaseTail(DropFirst(q, 1))

is_phase_header(line) ==
    LET stripped == lower(strip(line)) IN
    IF PHASE_I_RE(stripped) THEN PHASE_I_LABEL
    ELSE IF PHASE_II_IV_RE(stripped) THEN PHASE_II_IV_LABEL
    ELSE "None"

\* ------------------------------------------------------------------------
\* The taxonomy: an insertion-ordered map phase -> category -> studies,
\* kept as a sequence of [ph, cats], cats a sequence of [cat, studies]
\* ------------------------------------------------------------------------
PhaseIndex(phases, ph) ==
    IF \E k \in 1..Len(phases) : phases[k].ph = ph
    THEN CHOOSE k \in 1..Len(phases) : phases[k].ph = ph
    ELSE 0

CatIndex(cats, cat) ==
    IF \E k \in 1..Len(cats) : cats[k].cat = cat
    THEN CHOOSE k \in 1..Len(cats) : cats[k].cat = cat
    ELSE 0

HasBucket(phases, ph, cat) ==
    /\ PhaseIndex(phases, ph) # 0
    /\ CatIndex(phases[PhaseIndex(phases, ph)].cats, cat) # 0

ensure_phase(phases, ph) ==
    IF PhaseIndex(phases, ph) # 0 THEN phases
    ELSE Append(phases, [ph |-> ph, cats |-> <<>>])

ensure_category(phases, ph, cat) ==
    LET p1 == ensure_phase(phases, ph)
        k  == PhaseIndex(p1, ph)
    IN IF CatIndex(p1[k].cats, cat) # 0 THEN p1
       ELSE [p1 EXCEPT ![k].cats = Append(@, [cat |-> cat, studies |-> <<>>])]

\* as AppendStudy, but the study goes in front of the bucket
AppendStudy_InFront(phases, ph, cat, s) ==
    LET k == PhaseIndex(phases, ph)
        c == CatIndex(phases[k].cats, cat)
    IN [phases EXCEPT ![k].cats[c].studies = <<s>> \o @]

\* phases[ph][cat].append(s), the bucket being there
AppendStudy(phases, ph, cat, s) ==
    LET k == PhaseIndex(phases, ph)
        c == CatIndex(phases[k].cats, cat)
    IN [phases EXCEPT ![k].cats[c].studies = Append(@, s)]

Bucket(phases, ph, cat) ==
    phases[PhaseIndex(phases, ph)].cats[CatIndex(phases[PhaseIndex(phases, ph)].cats, cat)].studies

UNCATEGORIZED == <<"U","n","c","a","t","e","g","o","r","i","z","e","d">>
UNCATEGORIZED_FROM_MASTER ==
    UNCATEGORIZED \o <<" ","(","f","r","o","m"," ","m","a","s","t","e","r"," ","f","i","l","e",")">>

\* ------------------------------------------------------------------------
\* parse_master_hierarchy: the state of the loop and one line of it
\* ------------------------------------------------------------------------
MasterStart ==
    [phases |-> <<>>, current_phase |-> "None",
     current_category |-> None, current_study |-> None]

Pending(st) ==
    st.current_study # None /\ st.current_phase # "None" /\ st.current_category # None

\* as CommitNew, but the buffer is not cleared
CommitNew_KeepBuffer(st) ==
    IF Pending(st)
    THEN [st EXCEPT
            !.phases = AppendStudy(ensure_category(st.phases, st.current_phase, st.current_category),
                                   st.current_phase, st.current_category,
                                   clean_space_tabs(st.current_study))]
    ELSE st

\* the current parser's commit: ensure_category, append, clear the buffer
CommitNew(st) ==
    IF Pending(st)
    THEN [st EXCEPT
            !.phases = AppendStudy(ensure_category(st.phases, st.current_phase, st.current_category),
                                   st.current_phase, st.current_category,
                                   clean_space_tabs(st.current_study)),
            !.current_study = None]
    ELSE st

\* as DefaultPhase, but the default is Phase II-IV
DefaultPhase_PhaseIIIV(st) ==
    IF st.current_phase = "None"
    THEN [st EXCEPT !.current_phase = PHASE_II_IV_LABEL,
                    !.phases = ensure_phase(st.phases, PHASE_II_IV_LABEL)]
    ELSE st

DefaultPhase(st) ==
    IF st.current_phase = "None"
    THEN [st EXCEPT !.current_phase = PHASE_I_LABEL,
                    !.phases = ensure_phase(st.phases, PHASE_I_LABEL)]
    ELSE st

\* as EnterPhase, but the current category stays as it is
EnterPhase_KeepCategory(st, ph) ==
    [st EXCEPT !.current_phase = ph,
               !.phases = ensure_phase(st.phases, ph)]

\* a phase header, after the commit: current_phase = ph, ensure_phase,
\* current_category = None
EnterPhase(st, ph) ==
    [st EXCEPT !.current_phase = ph,
               !.phases = ensure_phase(st.phases, ph),
               !.current_category = None]

StripColon(line) ==
    LET cat == strip(line) IN
    IF cat # <<>> /\ cat[Len(cat)] = ":" THEN strip(SubSeq(cat, 1, Len(cat) - 1)) ELSE cat

MasterLineNew(st, line) ==
    IF strip(line) = <<>> THEN CommitNew(st)
    ELSE IF is_phase_header(line) # "None" THEN EnterPhase(CommitNew(st), is_phase_header(line))
    ELSE IF YEAR_LINE(line) THEN
        LET s1 == [CommitNew(st) EXCEPT !.current_study = strip(line)]
            s2 == DefaultPhase(s1)
        IN IF s2.current_category = None
           THEN [s2 EXCEPT !.current_category = UNCATEGORIZED,
                           !.phases = ensure_category(s2.phases, s2.current_phase, UNCATEGORIZED)]
           ELSE s2
    ELSE IF StripColon(line) # <<>> THEN
        LET s2 == DefaultPhase(CommitNew(st)) IN
        [s2 EXCEPT !.current_category = clean_space_tabs(StripColon(line)),
                   !.phases = ensure_category(s2.phases, s2.current_phase,
                                              clean_space_tabs(StripColon(line)))]
    ELSE st

\* the old parser: commit_study appends to the bucket, which is always there
commit_study(st) ==
    IF Pending(st)
    THEN [st EXCEPT
            !.phases = AppendStudy(st.phases, st.current_phase, st.current_category,
                                   clean_space_tabs(st.current_study)),
            !.current_study = None]
    ELSE st

\* CATEGORY_BULLET_RE = ^\s*[-]\s*(.+?)\s*:?\s*$ : group 1, or None
CATEGORY_BULLET_RE(line) ==
    LET t == lstrip(line) IN
    IF t = <<>> \/ Head(t) # "-" \/ Tail(t) = <<>> THEN None
    ELSE LET r == rstrip(lstrip(Tail(t))) IN
         IF r = <<>> THEN <<" ">>
         ELSE IF r[Len(r)] = ":" /\ rstrip(SubSeq(r, 1, Len(r) - 1)) # <<>>
              THEN rstrip(SubSeq(r, 1, Len(r) - 1))
              ELSE r

MasterLineOld(st, line) ==
    IF strip(line) = <<>> THEN commit_study(st)
    ELSE IF is_phase_header(line) # "None" THEN EnterPhase(commit_study(st), is_phase_header(line))
    ELSE IF YEAR_LINE(line) THEN
        LET s2 == DefaultPhase(commit_study(st))
            s3 == IF s2.current_category = None
                  THEN [s2 EXCEPT !.current_category = UNCATEGORIZED_FROM_MASTER,
                                  !.phases = ensure_category(s2.phases, s2.current_phase,
                                                             UNCATEGORIZED_FROM_MASTER)]
                  ELSE s2
        IN [s3 EXCEPT !.current_study = strip(line)]
    ELSE IF st.current_study # None THEN
        [st EXCEPT !.current_study = st.current_study \o <<" ">> \o strip(line)]
    ELSE
        LET cat == IF CATEGORY_BULLET_RE(line) # None
                   THEN clean_space_tabs(CATEGORY_BULLET_RE(line))
                   ELSE clean_space_tabs(StripColon(line))
            s2 == DefaultPhase(st)
        IN [s2 EXCEPT !.current_category = cat,
                      !.phases = ensure_category(s2.phases, s2.current_phase, cat)]

MasterLine(v, st, line) == IF v = "new" THEN MasterLineNew(st, line) ELSE MasterLineOld(st, line)
MasterEnd(v, st) == IF v = "new" THEN CommitNew(st) ELSE commit_study(st)

RECURSIVE MasterFold(_, _, _)
MasterFold(v, st, ls) ==
    IF ls = <<>> THEN st ELSE MasterFold(v, MasterLine(v, st, Head(ls)), Tail(ls))

parse_master_hierarchy(v, ls) == MasterEnd(v, MasterFold(v, MasterStart, ls)).phases

\* ------------------------------------------------------------------------
\* parse_unsorted_studies: the state of the loop and one line of it
\* ------------------------------------------------------------------------
END_MARKER ==
    <<"B","y"," ","s","i","g","n","i","n","g"," ","t","h","i","s"," ","f","o","r","m",","," ","I"," ",
    "c","o","n","f","i","r","m"," ","t","h","a","t"," ","t","h","e"," ","i","n","f","o","r","m","a",
    "t","i","o","n"," ","p","r","o","v","i","d","e","d"," ","i","s"," ","a","c","c","u","r","a","t",
    "e"," ","a","n","d"," ","r","e","f","l","e","c","t","s"," ","m","y"," ","c","u","r","r","e","n",
    "t"," ","q","u","a","l","i","f","i","c","a","t","i","o","n","s",".">>

\* first position of p in s, 0 when s does not hold p
Find(s, p) ==
    IF \E k \in 1..(Len(s) - Len(p) + 1) : SubSeq(s, k, k + Len(p) - 1) = p
    THEN CHOOSE k \in 1..(Len(s) - Len(p) + 1) :
            /\ SubSeq(s, k, k + Len(p) - 1) = p
            /\ \A j \in 1..(k - 1) : SubSeq(s, j, j + Len(p) - 1) # p
    ELSE 0

UnsortedStart == [studies |-> <<>>, current |-> None, stopped |-> FALSE]

Flush(st) ==
    IF st.current # None
    THEN [st EXCEPT !.studies = Append(@, clean_space_tabs(st.current)), !.current = None]
    ELSE st

\* one iteration of the current parser's loop; stopped is the break
UnsortedLineNew(st, raw0) ==
    LET hit_end == Find(raw0, END_MARKER) # 0
        raw  == IF hit_end THEN SubSeq(raw0, 1, Find(raw0, END_MARKER) - 1) ELSE raw0
        line == raw
    IN IF strip(line) = <<>>
       THEN [Flush(st) EXCEPT !.stopped = hit_end]
       ELSE IF YEAR_LINE(line)
       THEN [Flush(st) EXCEPT !.current = strip(line), !.stopped = hit_end]
       ELSE IF st.current = None
       THEN st
       ELSE [st EXCEPT !.current = st.current \o <<" ">> \o strip(line), !.stopped = hit_end]

\* the old parser knows no end marker
UnsortedLineOld(st, line) ==
    IF strip(line) = <<>> THEN Flush(st)
    ELSE IF YEAR_LINE(line) THEN [Flush(st) EXCEPT !.current = strip(line)]
    ELSE IF st.current = None THEN st
    ELSE [st EXCEPT !.current = st.current \o <<" ">> \o strip(line)]

\* as UnsortedLine, but a line of text read while no buffer is open opens one
UnsortedLine_TextOpensStudy(v, st, raw) ==
    IF strip(raw) # <<>> /\ ~YEAR_LINE(raw) /\ st.current = None /\ Find(raw, END_MARKER) = 0
    THEN [st EXCEPT !.current = strip(raw)]
    ELSE IF v = "new" THEN UnsortedLineNew(st, raw) ELSE UnsortedLineOld(st, raw)

UnsortedLine(v, st, raw) ==
    IF v = "new" THEN UnsortedLineNew(st, raw) ELSE UnsortedLineOld(st, raw)

RECURSIVE UnsortedFold(_, _, _)
UnsortedFold(v, st, ls) ==
    IF ls = <<>> \/ st.stopped THEN st
    ELSE UnsortedFold(v, UnsortedLine(v, st, Head(ls)), Tail(ls))

parse_unsorted_studies(v, ls) == Flush(UnsortedFold(v, UnsortedStart, ls)).studies

\* ------------------------------------------------------------------------
\* difflib.SequenceMatcher(None, a, b).ratio() for texts under 200
\* characters (no junk, no popular-element pruning)
\* ------------------------------------------------------------------------
SetMax(S) == CHOOSE x \in S : \A y \in S : y <= x
SetMin(S) == CHOOSE x \in S : \A y \in S : x <= y

RECURSIVE MatchLen(_, _, _, _, _, _)
MatchLen(a, b, i, j, ahi, bhi) ==
    IF i > ahi \/ j > bhi THEN 0
    ELSE IF a[i] # b[j] THEN 0
    ELSE 1 + MatchLen(a, b, i + 1, j + 1, ahi, bhi)

\* the longest block a[i..i+k-1] = b[j..j+k-1] in a[alo..ahi], b[blo..bhi]:
\* k maximal, then i minimal, then j minimal
find_longest_match(a, b, alo, ahi, blo, bhi) ==
    LET P == (alo..ahi) \X (blo..bhi)
        len == [p \in P |-> MatchLen(a, b, p[1], p[2], ahi, bhi)]
        best == IF P = {} THEN 0 ELSE SetMax({len[p] : p \in P})
    IN IF best = 0 THEN <<alo, blo, 0>>
       ELSE LET i == SetMin({p[1] : p \in {q \in P : len[q] = best}})
                j == SetMin({p[2] : p \in {q \in P : len[q] = best /\ q[1] = i}})
            IN <<i, j, best>>

\* the total size of get_matching_blocks()
RECURSIVE Matches(_, _, _, _, _, _)
Matches(a, b, alo, ahi, blo, bhi) ==
    IF alo > ahi \/ blo > bhi THEN 0
    ELSE LET m == find_longest_match(a, b, alo, ahi, blo, bhi) IN
         IF m[3] = 0 THEN 0
         ELSE m[3] + Matches(a, b, alo, m[1] - 1, blo, m[2] - 1)
                   + Matches(a, b, m[1] + m[3], ahi, m[2] + m[3], bhi)

ratio(a, b) ==
    IF Len(a) + Len(b) = 0 THEN <<1, 1>>
    ELSE <<2 * Matches(a, b, 1, Len(a), 1, Len(b)), Len(a) + Len(b)>>

\* ------------------------------------------------------------------------
\* Scores: exact rationals <<n, d>>, d > 0
\* ------------------------------------------------------------------------
Lt(p, q) == p[1] * q[2] < q[1] * p[2]
Geq(p, q) == ~Lt(p, q)
Eq(p, q) == p[1] * q[2] = q[1] * p[2]
Zero == <<0, 1>>
One == <<1, 1>>
\* (w_seq * seq + w_jac * jac) / 10
Blend(w_seq, seq, w_jac, jac) ==
    <<w_seq * seq[1] * jac[2] + w_jac * jac[1] * seq[2], 10 * seq[2] * jac[2]>>

Tokens(s) == {split(s)[k] : k \in 1..Len(split(s))}

\* r_jac of similarity_score: the overlap of the whitespace tokens
r_jac(a_norm, b_norm) ==
    LET set_a == Tokens(a_norm)
        set_b == Tokens(b_norm)
    IN IF set_a = {} \/ set_b = {} THEN Zero
       ELSE <<Cardinality(set_a \cap set_b), Cardinality(set_a \cup set_b)>>

\* as similarity_score, but scoring two empty texts 1.0
similarity_score_EmptyTextsAlike(a_norm, b_norm) ==
    IF a_norm = <<>> \/ b_norm = <<>> THEN (IF a_norm = b_norm THEN One ELSE Zero)
    ELSE Blend(7, ratio(a_norm, b_norm), 3, r_jac(a_norm, b_norm))

\* the two-master engine: 0.7 * r_seq + 0.3 * r_jac over normalized texts
similarity_score(a_norm, b_norm) ==
    IF a_norm = <<>> \/ b_norm = <<>> THEN Zero
    ELSE Blend(7, ratio(a_norm, b_norm), 3, r_jac(a_norm, b_norm))

\* the old engine: token sets without stop words, 0.6 * seq + 0.4 * jac
STOP == {
    <<"a">>,
    <<"a","n">>,
    <<"t","h","e">>,
    <<"t","o">>,
    <<"o","f">>,
    <<"a","n","d">>,
    <<"i","n">>,
    <<"f","o","r">>,
    <<"w","i","t","h">>,
    <<"o","n">>,
    <<"b","y">>,
    <<"f","r","o","m">>,
    <<"s","t","u","d","y">>,
    <<"p","h","a","s","e">>,
    <<"r","a","n","d","o","m","i","z","e","d">>,
    <<"o","p","e","n","l","a","b","e","l">>,
    <<"d","o","u","b","l","e">>,
    <<"s","i","n","g","l","e">>,
    <<"d","o","s","e">>,
    <<"m","u","l","t","i","p","l","e">>,
    <<"a","s","c","e","n","d","i","n","g">>,
    <<"p","a","r","t","i","c","i","p","a","n","t","s">>,
    <<"h","e","a","l","t","h","y">>,
    <<"p","l","a","c","e","b","o">>,
    <<"c","o","n","t","r","o","l","l","e","d">>,
    <<"e","v","a","l","u","a","t","e">>,
    <<"a","s","s","e","s","s">>,
    <<"s","a","f","e","t","y">>,
    <<"t","o","l","e","r","a","b","i","l","i","t","y">>}

\* as token_set, but the stop words stay in
token_set_KeepStopWords(text) == Tokens(normalize_text(text))

token_set(text) == Tokens(normalize_text(text)) \ STOP

\* as jaccard_similarity, but two empty token sets overlap 0.0
jaccard_similarity_EmptyIsZero(a, b) ==
    LET sa == token_set(a)
        sb == token_set(b)
    IN IF sa = {} \/ sb = {} THEN Zero
       ELSE <<Cardinality(sa \cap sb), Cardinality(sa \cup sb)>>

jaccard_similarity(a, b) ==
    LET sa == token_set(a)
        sb == token_set(b)
    IN IF sa = {} /\ sb = {} THEN One
       ELSE IF sa = {} \/ sb = {} THEN Zero
       ELSE <<Cardinality(sa \cap sb), Cardinality(sa \cup sb)>>

combined_similarity(a, b) ==
    Blend(6, ratio(normalize_text(a), normalize_text(b)), 4, jaccard_similarity(a, b))

\* ------------------------------------------------------------------------
\* flatten_studies and the result map of categorize_with_master
\* ------------------------------------------------------------------------
RECURSIVE FlattenCats(_, _)
FlattenCats(ph, cats) ==
    IF cats = <<>> THEN <<>>
    ELSE [k \in 1..Len(cats[1].studies) |-> [ph |-> ph, cat |-> cats[1].cat, s |-> cats[1].studies[k]]]
         \o FlattenCats(ph, Tail(cats))

RECURSIVE flatten_studies(_)
flatten_studies(phases) ==
    IF phases = <<>> THEN <<>>
    ELSE FlattenCats(phases[1].ph, phases[1].cats) \o flatten_studies(Tail(phases))

\* as SeedCategorized, but with the Uncategorized phase in front
SeedCategorized_UncategorizedFirst(phc) ==
    <<[ph |-> "Uncategorized", cats |-> <<[cat |-> UNCATEGORIZED, items |-> <<>>]>>]>>
    \o [p \in 1..Len(phc) |->
          [ph |-> phc[p].ph,
           cats |-> [c \in 1..Len(phc[p].cats) |-> [cat |-> phc[p].cats[c].cat, items |-> <<>>]]]]

\* as SeedCategorized, but leaving out the categories that hold no study
SeedCategorized_NonEmptyOnly(phc) ==
    LET kept(cats) == SelectSeq(cats, LAMBDA c : c.studies # <<>>)
        seeded == [p \in 1..Len(phc) |->
                     [ph |-> phc[p].ph,
                      cats |-> [c \in 1..Len(kept(phc[p].cats)) |->
                                  [cat |-> kept(phc[p].cats)[c].cat, items |-> <<>>]]]]
        withPh == IF PhaseIndex(seeded, "Uncategorized") # 0 THEN seeded
                  ELSE Append(seeded, [ph |-> "Uncategorized", cats |-> <<>>])
        k == PhaseIndex(withPh, "Uncategorized")
    IN IF CatIndex(withPh[k].cats, UNCATEGORIZED) # 0 THEN withPh
       ELSE [withPh EXCEPT ![k].cats = Append(@, [cat |-> UNCATEGORIZED, items |-> <<>>])]

\* categorized seeded with the buckets of phases_c, then Uncategorized/Uncategorized
SeedCategorized(phc) ==
    LET seeded == [p \in 1..Len(phc) |->
                     [ph |-> phc[p].ph,
                      cats |-> [c \in 1..Len(phc[p].cats) |->
                                  [cat |-> phc[p].cats[c].cat, items |-> <<>>]]]]
        withPh == IF PhaseIndex(seeded, "Uncategorized") # 0 THEN seeded
                  ELSE Append(seeded, [ph |-> "Uncategorized", cats |-> <<>>])
        k == PhaseIndex(withPh, "Uncategorized")
    IN IF CatIndex(withPh[k].cats, UNCATEGORIZED) # 0 THEN withPh
       ELSE [withPh EXCEPT ![k].cats = Append(@, [cat |-> UNCATEGORIZED, items |-> <<>>])]

\* as Place, but appending to the category of that name under every phase
Place_EveryPhase(cz, ph, cat, item) ==
    [k \in 1..Len(cz) |->
        [cz[k] EXCEPT !.cats = [c \in 1..Len(cz[k].cats) |->
            IF cz[k].cats[c].cat = cat
            THEN [cz[k].cats[c] EXCEPT !.items = Append(@, item)]
            ELSE cz[k].cats[c]]]]

\* as Place, but assigning the bucket instead of appending to it
Place_Overwrite(cz, ph, cat, item) ==
    LET k == PhaseIndex(cz, ph)
        c == CatIndex(cz[k].cats, cat)
    IN [cz EXCEPT ![k].cats[c].items = <<item>>]

\* categorized[ph][cat].append(item), the bucket being there
Place(cz, ph, cat, item) ==
    LET k == PhaseIndex(cz, ph)
        c == CatIndex(cz[k].cats, cat)
    IN [cz EXCEPT ![k].cats[c].items = Append(@, item)]

Items(cz, ph, cat) ==
    cz[PhaseIndex(cz, ph)].cats[CatIndex(cz[PhaseIndex(cz, ph)].cats, cat)].items

\* x or y, for an Optional[str] x
Or(x, y) == IF x = None \/ x = <<>> THEN y ELSE x

AuditRow(u, m, ph, cat, sc) == [u |-> u, m |-> m, ph |-> ph, cat |-> cat, sc |-> sc]

\* ------------------------------------------------------------------------
\* The audit file: one line per audit row,
\*     f"{u}\t{m or ''}\t{ph or 'Uncategorized'}\t{cat or 'Uncategorized'}\t{sc:.3f}\n"
\* kept as its five tab-separated fields
\* ------------------------------------------------------------------------
DigitChar(k) == <<"0","1","2","3","4","5","6","7","8","9">>[k + 1]

RECURSIVE DecimalDigits(_)
DecimalDigits(n) == IF n < 10 THEN <<DigitChar(n)>> ELSE Append(DecimalDigits(n \div 10), DigitChar(n % 10))

\* sc in thousandths, rounded to the nearest, a tie to the even one (sc >= 0)
Thousandths(sc) ==
    LET q == (sc[1] * 1000) \div sc[2]
        r == (sc[1] * 1000) % sc[2]
    IN IF 2 * r > sc[2] \/ (2 * r = sc[2] /\ q % 2 = 1) THEN q + 1 ELSE q

\* f"{sc:.3f}"
Format3f(sc) ==
    LET t == Thousandths(sc) IN
    DecimalDigits(t \div 1000) \o <<".", DigitChar((t \div 100) % 10), DigitChar((t \div 10) % 10), DigitChar(t % 10)>>

AuditLine(r) ==
    <<r.u,
      Or(r.m, <<>>),
      IF r.ph = "None" THEN "Uncategorized" ELSE r.ph,
      Or(r.cat, UNCATEGORIZED),
      Format3f(r.sc)>>

\* ------------------------------------------------------------------------
\* Inputs
\* ------------------------------------------------------------------------
MaxCandidates == 2
MaxLines == 4

\* MASTER text files, line by line
\* Column C: two phases, Cat A under both, four studies
\*   Phase I | Cat A | 2020 Ab: cd | 2021 ef |  | Cat B | 2020 zz | Phase II-IV | Cat A | 2020 Ab: cd
MASTER_C_FULL ==
    <<<<"P","h","a","s","e"," ","I">>,
      <<"C","a","t"," ","A">>,
      <<"2","0","2","0"," ","A","b",":"," ","c","d">>,
      <<"2","0","2","1"," ","e","f">>,
      <<>>,
      <<"C","a","t"," ","B">>,
      <<"2","0","2","0"," ","z","z">>,
      <<"P","h","a","s","e"," ","I","I","-","I","V">>,
      <<"C","a","t"," ","A">>,
      <<"2","0","2","0"," ","A","b",":"," ","c","d">>>>

\* Column C: one study only
\*   Phase I | Cat A | 2020 Ab: cd
MASTER_C_SHORT ==
    <<<<"P","h","a","s","e"," ","I">>,
      <<"C","a","t"," ","A">>,
      <<"2","0","2","0"," ","A","b",":"," ","c","d">>>>

\* Column B: MASTER_C_FULL line by line, in the red-label wording
\*   Phase I | Cat A | 2020 Ab: cd RED | 2021 ef RED |  | Cat B | 2020 zz RED | Phase II-IV | Cat A | 2020 Ab: cd RED
MASTER_B_FULL ==
    <<<<"P","h","a","s","e"," ","I">>,
      <<"C","a","t"," ","A">>,
      <<"2","0","2","0"," ","A","b",":"," ","c","d"," ","R","E","D">>,
      <<"2","0","2","1"," ","e","f"," ","R","E","D">>,
      <<>>,
      <<"C","a","t"," ","B">>,
      <<"2","0","2","0"," ","z","z"," ","R","E","D">>,
      <<"P","h","a","s","e"," ","I","I","-","I","V">>,
      <<"C","a","t"," ","A">>,
      <<"2","0","2","0"," ","A","b",":"," ","c","d"," ","R","E","D">>>>

\* Column C without a phase header, its only study nothing but punctuation
\*   Cat P | 2020 ---
MASTER_C_PUNCT ==
    <<<<"C","a","t"," ","P">>,
      <<"2","0","2","0"," ","-","-","-">>>>

\* Column C with categories that hold no study: in front of another category,
\* in front of a phase header and at the end of the file
\*   Phase I | Cat E: | Cat A | 2020 Ab: cd |  | Cat F | Phase II-IV | Cat G
MASTER_C_EMPTY ==
    <<<<"P","h","a","s","e"," ","I">>,
      <<"C","a","t"," ","E",":">>,
      <<"C","a","t"," ","A">>,
      <<"2","0","2","0"," ","A","b",":"," ","c","d">>,
      <<>>,
      <<"C","a","t"," ","F">>,
      <<"P","h","a","s","e"," ","I","I","-","I","V">>,
      <<"C","a","t"," ","G">>>>

MasterFilesC == {MASTER_C_FULL, MASTER_C_SHORT, MASTER_C_PUNCT, MASTER_C_EMPTY}
\* Column B in another order than Column C: its first entry is the 2021 one
\*   Phase I | Cat A | 2021 ef RED | 2020 Ab: cd RED
MASTER_B_SWAPPED ==
    <<<<"P","h","a","s","e"," ","I">>,
      <<"C","a","t"," ","A">>,
      <<"2","0","2","1"," ","e","f"," ","R","E","D">>,
      <<"2","0","2","0"," ","A","b",":"," ","c","d"," ","R","E","D">>>>

MasterFilesB == {MASTER_B_FULL, MASTER_B_SWAPPED}

\* candidate study lines
\* "2020 Ab: cd": the primary's first entry, word for word
U_EXACT == <<"2","0","2","0"," ","A","b",":"," ","c","d">>
\* "2020 ab cd RED": the secondary's wording of the first entry
U_RED == <<"2","0","2","0"," ","a","b"," ","c","d"," ","R","E","D">>
\* "2021 ef RED": the secondary's wording of the second entry
U_RED_2021 == <<"2","0","2","1"," ","e","f"," ","R","E","D">>
\* "2020 zz RED": the secondary's wording of the third entry
U_RED_ZZ == <<"2","0","2","0"," ","z","z"," ","R","E","D">>
\* "2019 qq": a year no master entry has
U_OTHER_YEAR == <<"2","0","1","9"," ","q","q">>
\* "Ab: cd": the first entry's text without a year
U_NO_YEAR == <<"A","b",":"," ","c","d">>
\* "2020": nothing after the year
U_YEAR_ONLY == <<"2","0","2","0">>
\* "2020 ---": only punctuation after the year
U_PUNCT == <<"2","0","2","0"," ","-","-","-">>
\* "2020 qq": a 2020 text sharing nothing with any 2020 entry
U_UNLIKE == <<"2","0","2","0"," ","q","q">>
\* "": the empty string
U_EMPTY == <<>>

Candidates == {U_EXACT, U_RED, U_RED_2021, U_RED_ZZ, U_OTHER_YEAR, U_NO_YEAR, U_YEAR_ONLY, U_PUNCT, U_UNLIKE,
               U_EMPTY}

\* --threshold: 0, 0.5, 0.8 (the default), 1 and 1.01
Thresholds == {<<0, 100>>, <<50, 100>>, <<80, 100>>, <<100, 100>>, <<101, 100>>}

\* ------------------------------------------------------------------------
\* The comparison texts and the scores of the input texts. The engines
\* compute the normalized text of every master entry once per call (c_norm,
\* b_norm, m_norm) and a score per candidate and same-year entry; here they
\* are computed once for the texts of the input pools and kept in memo.
\* ------------------------------------------------------------------------
VARIABLE memo  \* normalized[v][s] and scores[v][u][s] of the texts of the pools
\* (f @@ <<>> is f, written out as an explicit table)
MasterStudies ==
    DOMAIN ([s \in UNION {{flatten_studies(parse_master_hierarchy(v, f))[k].s :
                              k \in 1..Len(flatten_studies(parse_master_hierarchy(v, f)))} :
                          v \in {"new", "old"}, f \in MasterFilesC \cup MasterFilesB} |-> 0] @@ <<>>)

PoolTexts == DOMAIN ([s \in Candidates \cup MasterStudies |-> 0] @@ <<>>)

\* normalize_after_year in the two-master engine, normalize_text in the old one
ComputeNormalized(v, s) == IF v = "new" THEN normalize_after_year(s) ELSE normalize_text(s)

NORMALIZED ==
    [v \in {"new", "old"} |-> [s \in PoolTexts |-> ComputeNormalized(v, s)] @@ <<>>] @@ <<>>

Normalized(v, s) ==
    IF s \in DOMAIN memo.normalized[v] THEN memo.normalized[v][s] ELSE ComputeNormalized(v, s)

\* similarity_score(u_norm, c_norm[i]) in the two-master engine,
\* combined_similarity(u, m_orig[i]) in the old one
ComputeScore(v, u, s) ==
    IF v = "new"
    THEN similarity_score(NORMALIZED[v][u], NORMALIZED[v][s])
    ELSE combined_similarity(u, s)

SCORES ==
    [v \in {"new", "old"} |->
        [u \in Candidates |-> [s \in MasterStudies |-> ComputeScore(v, u, s)] @@ <<>>] @@ <<>>] @@ <<>>

\* the score of a pair outside the pools
ComputeScoreOf(v, u, s) ==
    IF v = "new"
    THEN similarity_score(ComputeNormalized(v, u), ComputeNormalized(v, s))
    ELSE combined_similarity(u, s)

Tables == [normalized |-> NORMALIZED, scores |-> SCORES]
NoTables == [normalized |-> [v \in {"new", "old"} |-> <<>>], scores |-> [v \in {"new", "old"} |-> <<>>]]

Score(v, u, s) ==
    IF u \in DOMAIN memo.scores[v] /\ s \in DOMAIN memo.scores[v][u]
    THEN memo.scores[v][u][s]
    ELSE ComputeScoreOf(v, u, s)

\* ------------------------------------------------------------------------
\* The year-scoped search for the best score: the loop
\*     for i, yr in enumerate(years):
\*         if u_year is not None and yr is not None and yr == u_year:
\*             sc = ...; if sc > best_score: best_score = sc; best_idx = i
\* over positions k..Len(years); position 0 is Python's None
\* ------------------------------------------------------------------------
\* as SameYear, but without the comparison of the years
SameYear_AnyYear(u_year, yr) == u_year # None /\ yr # None

SameYear(u_year, yr) == u_year # None /\ yr # None /\ yr = u_year

\* as BestSameYear, but with sc >= best_score: the last of equal scores wins
RECURSIVE BestSameYear_LastWins(_, _, _, _, _, _)
BestSameYear_LastWins(u_year, years, scores, k, best_idx, best_score) ==
    IF k > Len(years) THEN <<best_idx, best_score>>
    ELSE IF SameYear(u_year, years[k]) /\ ~Lt(scores[k], best_score)
    THEN BestSameYear_LastWins(u_year, years, scores, k + 1, k, scores[k])
    ELSE BestSameYear_LastWins(u_year, years, scores, k + 1, best_idx, best_score)

\* as BestSameYear, but of the entries with the greatest score the one of the
\* highest index
BestSameYear_HighestIndex(u_year, years, scores, k, best_idx, best_score) ==
    LET better == {j \in k..Len(years) : SameYear(u_year, years[j]) /\ Lt(best_score, scores[j])}
    IN IF better = {} THEN <<best_idx, best_score>>
       ELSE LET j == CHOOSE j \in better :
                        \A i \in better : Lt(scores[i], scores[j]) \/ (Eq(scores[i], scores[j]) /\ i <= j)
            IN <<j, scores[j]>>

RECURSIVE BestSameYear(_, _, _, _, _, _)
BestSameYear(u_year, years, scores, k, best_idx, best_score) ==
    IF k > Len(years) THEN <<best_idx, best_score>>
    ELSE IF SameYear(u_year, years[k]) /\ Lt(best_score, scores[k])
    THEN BestSameYear(u_year, years, scores, k + 1, k, scores[k])
    ELSE BestSameYear(u_year, years, scores, k + 1, best_idx, best_score)

\* ------------------------------------------------------------------------
\* categorize_with_master, the two-master engine: one candidate
\* ------------------------------------------------------------------------
\* the state carried through the loop and the locals of the last iteration
Outcome(cz, rows, raised, bc, bb, via) ==
    [categorized |-> cz, audit_rows |-> rows, raised |-> raised,
     best_idx_c |-> bc[1], best_score_c |-> bc[2],
     best_idx_b |-> bb[1], best_score_b |-> bb[2], via |-> via]

\* as Unmatched, but without the audit row
Unmatched_NoAudit(cz, rows, u, item, sc, bc, bb, via) ==
    Outcome(Place(cz, "Uncategorized", UNCATEGORIZED, item),
            rows, FALSE, bc, bb, via)

\* as Unmatched, but placing the candidate's whole line, the year included
Unmatched_WholeLine(cz, rows, u, item, sc, bc, bb, via) ==
    Outcome(Place(cz, "Uncategorized", UNCATEGORIZED, <<item[1], u>>),
            Append(rows, AuditRow(u, None, "None", None, sc)), FALSE, bc, bb, via)

\* as Unmatched, but the audit row holds the best score of the primary pass
Unmatched_BestScore(cz, rows, u, item, sc, bc, bb, via) ==
    Outcome(Place(cz, "Uncategorized", UNCATEGORIZED, item),
            Append(rows, AuditRow(u, None, "None", None, bc[2])), FALSE, bc, bb, via)

Unmatched(cz, rows, u, item, sc, bc, bb, via) ==
    Outcome(Place(cz, "Uncategorized", UNCATEGORIZED, item),
            Append(rows, AuditRow(u, None, "None", None, sc)), FALSE, bc, bb, via)

\* the body of the loop behind the two passes: bc is <<best_idx_c, best_score_c>>
\* of pass 1 and bb is <<best_idx_b, best_score_b>> of pass 2
DecideNew(cz, rows, flat_c, flat_b, has_b, th, u, bc, bb) ==
    LET u_year  == extract_year(u)
        after_u == strip(strip_leading_year(u))
        c_year  == [k \in 1..Len(flat_c) |-> extract_year(flat_c[k].s)]
        none    == <<0, Zero>>
    IN IF after_u = <<>>
       THEN Unmatched(cz, rows, u, <<Or(u_year, <<>>), after_u>>, Zero, none, none, "empty")
       ELSE IF bc[1] # 0 /\ Geq(bc[2], th)
       THEN LET e == flat_c[bc[1]] IN
            Outcome(Place(cz, e.ph, e.cat,
                          <<Or(c_year[bc[1]], Or(u_year, <<>>)), strip(strip_leading_year(e.s))>>),
                    Append(rows, AuditRow(u, e.s, e.ph, e.cat, bc[2])),
                    FALSE, bc, none, "primary")
       ELSE IF has_b /\ flat_b # <<>> /\ bb[1] # 0 /\ Geq(bb[2], th)
       THEN LET e == IF bb[1] <= Len(flat_c) THEN flat_c[bb[1]] ELSE flat_b[bb[1]] IN
            IF HasBucket(cz, e.ph, e.cat)
            THEN Outcome(Place(cz, e.ph, e.cat,
                               <<Or(extract_year(e.s), Or(u_year, <<>>)), strip(strip_leading_year(e.s))>>),
                         Append(rows, AuditRow(u, e.s, e.ph, e.cat, bb[2])),
                         FALSE, bc, bb, "secondary")
            ELSE Outcome(cz, rows, TRUE, bc, bb, "secondary")
       ELSE Unmatched(cz, rows, u, <<Or(u_year, <<>>), after_u>>, Zero, bc, bb, "none")

CandidateNew(cz, rows, flat_c, flat_b, has_b, th, u) ==
    LET u_year  == extract_year(u)
        c_year  == [k \in 1..Len(flat_c) |-> extract_year(flat_c[k].s)]
        b_year  == [k \in 1..Len(flat_b) |-> extract_year(flat_b[k].s)]
        sc_c    == [k \in 1..Len(flat_c) |-> Score("new", u, flat_c[k].s)]
        sc_b    == [k \in 1..Len(flat_b) |-> Score("new", u, flat_b[k].s)]
    IN DecideNew(cz, rows, flat_c, flat_b, has_b, th, u,
                 BestSameYear(u_year, c_year, sc_c, 1, 0, Zero),
                 IF has_b /\ flat_b # <<>>
                 THEN BestSameYear(u_year, b_year, sc_b, 1, 0, Zero)
                 ELSE <<0, Zero>>)

\* ------------------------------------------------------------------------
\* categorize_with_master, the old single-master engine: one candidate
\* ------------------------------------------------------------------------
\* exact_map[(u_year, u_norm)][0]: the first master entry with that key, 0 if none
ExactIndex(m, u_year, u_norm) ==
    LET hit(k) == extract_year(m[k].s) = u_year /\ Normalized("old", m[k].s) = u_norm IN
    IF \E k \in 1..Len(m) : hit(k)
    THEN CHOOSE k \in 1..Len(m) : hit(k) /\ \A j \in 1..(k - 1) : ~hit(j)
    ELSE 0

\* the loop over year_to_indices.get(u_year, []) with sc > best_score
RECURSIVE BestOfYear(_, _, _, _, _, _)
BestOfYear(u_year, years, scores, k, best_idx, best_score) ==
    IF k > Len(years) THEN <<best_idx, best_score>>
    ELSE IF years[k] = u_year /\ Lt(best_score, scores[k])
    THEN BestOfYear(u_year, years, scores, k + 1, k, scores[k])
    ELSE BestOfYear(u_year, years, scores, k + 1, best_idx, best_score)

\* the body of the loop behind the two lookups: x is the index of the exact
\* match (0 if none) and best is <<best_idx, best_score>> of the year's loop
DecideOld(cz, rows, m, th, u, x, best) ==
    LET u_year == extract_year(u)
        m_year == [k \in 1..Len(m) |-> extract_year(m[k].s)]
        none   == <<0, Zero>>
        out(k) == <<Or(u_year, Or(extract_year(m[k].s), <<>>)), lstrip(strip_leading_year(m[k].s))>>
    IN IF x # 0
       THEN Outcome(Place(cz, m[x].ph, m[x].cat, out(x)),
                    Append(rows, AuditRow(u, m[x].s, m[x].ph, m[x].cat, One)),
                    FALSE, <<x, One>>, none, "exact")
       ELSE IF \A k \in 1..Len(m) : m_year[k] # u_year
       THEN Unmatched(cz, rows, u, <<Or(u_year, <<>>), strip_leading_year(u)>>,
                      Zero, none, none, "none")
       ELSE IF best[1] # 0 /\ Geq(best[2], th)
       THEN Outcome(Place(cz, m[best[1]].ph, m[best[1]].cat, out(best[1])),
                    Append(rows, AuditRow(u, m[best[1]].s, m[best[1]].ph, m[best[1]].cat, best[2])),
                    FALSE, best, none, "primary")
       ELSE Unmatched(cz, rows, u, <<Or(u_year, <<>>), strip_leading_year(u)>>,
                      IF best[1] # 0 THEN best[2] ELSE Zero, best, none, "none")

CandidateOld(cz, rows, m, th, u) ==
    LET u_year == extract_year(u)
        m_year == [k \in 1..Len(m) |-> extract_year(m[k].s)]
        sc     == [k \in 1..Len(m) |-> Score("old", u, m[k].s)]
    IN DecideOld(cz, rows, m, th, u,
                 ExactIndex(m, u_year, Normalized("old", u)),
                 BestOfYear(u_year, m_year, sc, 1, 0, <<-1, 1>>))

\* ------------------------------------------------------------------------
\* The post-pass: sorted(items, key=lambda t: year_as_int(t[0]), reverse=True)
\* ------------------------------------------------------------------------
DigitValue(c) == CHOOSE d \in 0..9 : <<"0","1","2","3","4","5","6","7","8","9">>[d + 1] = c

RECURSIVE Decimal(_)
Decimal(s) == IF s = <<>> THEN 0 ELSE 10 * Decimal(SubSeq(s, 1, Len(s) - 1)) + DigitValue(s[Len(s)])

\* int(yy), -1 when it raises (here: yy is not a run of digits)
year_as_int(yy) ==
    IF yy # <<>> /\ \A k \in 1..Len(yy) : IsDigit(yy[k]) THEN Decimal(yy) ELSE -1

\* as InsertDesc, but x goes in front of the entries with an equal key
InsertDesc_Unstable(sorted, x) ==
    LET n == Cardinality({k \in 1..Len(sorted) : year_as_int(sorted[k][1]) > year_as_int(x[1])})
    IN SubSeq(sorted, 1, n) \o <<x>> \o SubSeq(sorted, n + 1, Len(sorted))

\* x goes behind every entry whose key is not smaller: equal keys keep their order
InsertDesc(sorted, x) ==
    LET n == Cardinality({k \in 1..Len(sorted) : year_as_int(sorted[k][1]) >= year_as_int(x[1])})
    IN SubSeq(sorted, 1, n) \o <<x>> \o SubSeq(sorted, n + 1, Len(sorted))

RECURSIVE SortedDesc(_)
SortedDesc(items) ==
    IF items = <<>> THEN <<>>
    ELSE InsertDesc(SortedDesc(SubSeq(items, 1, Len(items) - 1)), items[Len(items)])

SortAll(cz) ==
    [p \in 1..Len(cz) |->
       [cz[p] EXCEPT !.cats = [c \in 1..Len(cz[p].cats) |->
            [cz[p].cats[c] EXCEPT !.items = SortedDesc(@)]]]]

\* ------------------------------------------------------------------------
\* categorize_with_master as one call: the loop over the candidates from
\* position k on, then the sort; a KeyError ends the call
\* ------------------------------------------------------------------------
OneCandidate(v, cz, rows, flat_c, flat_b, has_b, th, u) ==
    IF v = "new" THEN CandidateNew(cz, rows, flat_c, flat_b, has_b, th, u)
    ELSE CandidateOld(cz, rows, flat_c, th, u)

\* as Loop, but taking the candidates from the last to the first
RECURSIVE Loop_LastFirst(_, _, _, _, _, _, _, _, _)
Continue_LastFirst(v, o, flat_c, flat_b, has_b, th, us, k) ==
    IF o.raised THEN [categorized |-> o.categorized, audit_rows |-> o.audit_rows, raised |-> TRUE]
    ELSE Loop_LastFirst(v, o.categorized, o.audit_rows, flat_c, flat_b, has_b, th, us, k + 1)

Loop_LastFirst(v, cz, rows, flat_c, flat_b, has_b, th, us, k) ==
    IF k > Len(us) THEN [categorized |-> cz, audit_rows |-> rows, raised |-> FALSE]
    ELSE Continue_LastFirst(v, OneCandidate(v, cz, rows, flat_c, flat_b, has_b, th, us[Len(us) + 1 - k]),
                            flat_c, flat_b, has_b, th, us, k)

\* after candidate k, with o what its iteration left: a KeyError ends the
\* call, otherwise the loop goes on with candidate k + 1
RECURSIVE Loop(_, _, _, _, _, _, _, _, _)
Continue(v, o, flat_c, flat_b, has_b, th, us, k) ==
    IF o.raised THEN [categorized |-> o.categorized, audit_rows |-> o.audit_rows, raised |-> TRUE]
    ELSE Loop(v, o.categorized, o.audit_rows, flat_c, flat_b, has_b, th, us, k + 1)

Loop(v, cz, rows, flat_c, flat_b, has_b, th, us, k) ==
    IF k > Len(us) THEN [categorized |-> cz, audit_rows |-> rows, raised |-> FALSE]
    ELSE Continue(v, OneCandidate(v, cz, rows, flat_c, flat_b, has_b, th, us[k]),
                  flat_c, flat_b, has_b, th, us, k)

\* the sort of every bucket and the return
ReturnSorted(o) == IF o.raised THEN o ELSE [o EXCEPT !.categorized = SortAll(@)]

categorize_with_master(v, phc, phb, has_b, us, th) ==
    ReturnSorted(Loop(v, SeedCategorized(phc), <<>>, flatten_studies(phc), flatten_studies(phb),
                      has_b, th, us, 1))

\* no call made
NoCall == [categorized |-> <<>>, audit_rows |-> <<>>, raised |-> FALSE]

\* ------------------------------------------------------------------------
\* State
\* ------------------------------------------------------------------------
VARIABLES
    version,           \* "new": Processors/sorterv2.py, "old": Processors/old/sorterv2.py
    phases_c,          \* the primary taxonomy (phases, in the old engine)
    phases_b,          \* the secondary taxonomy
    master_b_given,    \* phases_b is not None
    threshold,
    unsorted_studies,  \* the candidate list
    pos,               \* the candidate the loop of categorize_with_master is at
    categorized,
    audit_rows,
    last,              \* the locals of the last iteration: best_idx_c, best_score_c, ...
    placed,            \* the buckets as the loop left them, before the sort
    again,             \* what a second call with the same arguments returns
    pc,
    lines,             \* the lines a parser has read (in Spec: the Column C master file)
    master,            \* parse_master_hierarchy: phases, current_phase, current_category, current_study
    unsorted,          \* parse_unsorted_studies: studies, current, and whether the loop was left
    args,              \* the command line: whether --master-b and --docx-out are given
    files,             \* the paths that exist, of "master", "master_b", "unsorted", "out", "docx_out", "audit"
    inputs,            \* the lines of the master, master-B and unsorted files
    fault,             \* the step of this run at which the environment raises an exception
    status,            \* the exit status of the process, -1 while it runs
    audit_file,        \* the lines written to the audit file, below the header
    texts,             \* the two texts a similarity function is called with
    scored,            \* what the call computed: the comparison texts, the token overlap, the score
    gui,               \* tab1_process: the values of the One Click tab and what is on the disk
    launched,          \* tab1_process: the steps run_cmd was called for, each with its outcome
    message,           \* tab1_process: what the user is told, "none" while there was nothing
    reader,          \* csv_to_no_red_master: the rows of the CSV
    out_c,             \* csv_to_no_red_master: the text written to the Column C file
    out_b              \* csv_to_no_red_master: the text written to the Column B file

vars == <<version, phases_c, phases_b, master_b_given, threshold, unsorted_studies, pos,
          categorized, audit_rows, last, placed, again, pc, lines, master, unsorted,
          args, files, inputs, fault, status, audit_file, memo,
          texts, scored, gui, launched, message, reader, out_c, out_b>>

engineVars == <<phases_c, phases_b, master_b_given, threshold, unsorted_studies, pos,
                categorized, audit_rows, last, placed, again>>
parserVars == <<lines, master, unsorted>>
cliVars == <<args, files, inputs, fault, status, audit_file>>
scoreVars == <<texts, scored>>
guiVars == <<gui, launched, message>>
csvVars == <<reader, out_c, out_b>>

\* no command line: the functions are called directly
NoCommandLine ==
    /\ args = [master_b |-> FALSE, docx_out |-> FALSE]
    /\ files = {}
    /\ inputs = [master |-> <<>>, master_b |-> <<>>, unsorted |-> <<>>]
    /\ fault = "none"
    /\ status = -1
    /\ audit_file = <<>>

\* no similarity call, no pipeline of the GUI and no CSV conversion
NoScoring == texts = <<>> /\ scored = <<>>
NoPipeline == gui = <<>> /\ launched = <<>> /\ message = "none"
NoCsv == reader = <<>> /\ out_c = <<>> /\ out_b = <<>>

NoLocals == Outcome(<<>>, <<>>, FALSE, <<0, Zero>>, <<0, Zero>>, "start")

\* ------------------------------------------------------------------------
\* categorize_with_master
\* ------------------------------------------------------------------------
Init ==
    /\ memo \in {Tables}
    /\ version \in {"new", "old"}
    /\ \E f \in MasterFilesC : lines = f /\ phases_c = parse_master_hierarchy(version, f)
    /\ \/ master_b_given = FALSE /\ phases_b = <<>>
       \/ /\ version = "new"
          /\ master_b_given = TRUE
          /\ \E f \in MasterFilesB : phases_b = parse_master_hierarchy(version, f)
    /\ threshold \in Thresholds
    /\ unsorted_studies \in UNION {[1..n -> Candidates] : n \in 0..MaxCandidates}
    /\ pos = 1
    /\ categorized = SeedCategorized(phases_c)
    /\ audit_rows = <<>>
    /\ last = NoLocals
    /\ placed = <<>>
    /\ again = NoCall
    /\ pc = "loop"
    /\ master = MasterStart
    /\ unsorted = UnsortedStart
    /\ NoCommandLine
    /\ NoScoring /\ NoPipeline /\ NoCsv

Candidate(u) ==
    IF version = "new"
    THEN CandidateNew(categorized, audit_rows, flatten_studies(phases_c),
                      flatten_studies(phases_b), master_b_given, threshold, u)
    ELSE CandidateOld(categorized, audit_rows, flatten_studies(phases_c), threshold, u)

\* one iteration of "for u in unsorted_studies"; a KeyError leaves the function
ProcessCandidate ==
    /\ pc = "loop"
    /\ pos <= Len(unsorted_studies)
    /\ last' = Candidate(unsorted_studies[pos])
    /\ categorized' = last'.categorized
    /\ audit_rows' = last'.audit_rows
    /\ pc' = IF last'.raised THEN "raised" ELSE "loop"
    /\ pos' = pos + 1
    /\ UNCHANGED <<scoreVars, guiVars, csvVars>>
    /\ UNCHANGED <<memo, version, phases_c, phases_b, master_b_given, threshold, unsorted_studies, placed, again>>
    /\ UNCHANGED parserVars
    /\ UNCHANGED cliVars

\* the loop is over: sort every bucket and return
SortAndReturn ==
    /\ pc = "loop"
    /\ pos > Len(unsorted_studies)
    /\ placed' = categorized
    /\ categorized' = SortAll(categorized)
    /\ pc' = "done"
    /\ UNCHANGED <<scoreVars, guiVars, csvVars>>
    /\ UNCHANGED <<memo, version, phases_c, phases_b, master_b_given, threshold, unsorted_studies,
                   pos, audit_rows, last, again>>
    /\ UNCHANGED parserVars
    /\ UNCHANGED cliVars

\* the function has returned; it is called once more with the same arguments
CallAgain ==
    /\ pc = "done"
    /\ again' = categorize_with_master(version, phases_c, phases_b, master_b_given,
                                        unsorted_studies, threshold)
    /\ pc' = "twice"
    /\ UNCHANGED <<scoreVars, guiVars, csvVars>>
    /\ UNCHANGED <<memo, version, phases_c, phases_b, master_b_given, threshold, unsorted_studies,
                   pos, categorized, audit_rows, last, placed>>
    /\ UNCHANGED parserVars
    /\ UNCHANGED cliVars

Next == ProcessCandidate \/ SortAndReturn \/ CallAgain

Spec == Init /\ [][Next]_vars

\* ------------------------------------------------------------------------
\* parse_master_hierarchy over every file of at most MaxLines lines
\* ------------------------------------------------------------------------
ML_BLANK == <<>>  \* ""
ML_PHASE_I == <<"P","h","a","s","e"," ","I">>  \* "Phase I"
ML_PHASE_II_IV == <<"P","H","A","S","E"," ","2","-","4",":">>  \* "PHASE 2-4:"
ML_STUDY_2020 == <<"2","0","2","0"," ","A","b",":"," ","c","d">>  \* "2020 Ab: cd"
ML_STUDY_2021 == <<"2","0","2","1"," ","e","f">>  \* "2021 ef"
ML_CAT_A == <<"C","a","t"," ","A",":">>  \* "Cat A:"
ML_TEXT == <<"m","o","r","e"," ","t","e","x","t">>  \* "more text"
ML_COLON == <<":">>  \* ":"
MasterLines == {ML_BLANK, ML_PHASE_I, ML_PHASE_II_IV, ML_STUDY_2020, ML_STUDY_2021, ML_CAT_A, ML_TEXT, ML_COLON}

IdleEngine ==
    /\ phases_c = <<>>
    /\ phases_b = <<>>
    /\ master_b_given = FALSE
    /\ threshold = <<80, 100>>
    /\ unsorted_studies = <<>>
    /\ pos = 1
    /\ categorized = <<>>
    /\ audit_rows = <<>>
    /\ last = NoLocals
    /\ placed = <<>>
    /\ again = NoCall

InitMaster ==
    /\ memo = NoTables
    /\ version \in {"new", "old"}
    /\ IdleEngine
    /\ pc = "reading"
    /\ lines = <<>>
    /\ master = MasterStart
    /\ unsorted = UnsortedStart
    /\ NoCommandLine
    /\ NoScoring /\ NoPipeline /\ NoCsv

\* one iteration of "for raw in f"
ReadMasterLine ==
    /\ pc = "reading"
    /\ Len(lines) < MaxLines
    /\ \E l \in MasterLines :
         /\ lines' = Append(lines, l)
         /\ master' = MasterLine(version, master, l)
    /\ UNCHANGED <<scoreVars, guiVars, csvVars>>
    /\ UNCHANGED <<memo, version, pc, unsorted>>
    /\ UNCHANGED engineVars
    /\ UNCHANGED cliVars

\* end of file: the commit after the loop, and return phases
EndMaster ==
    /\ pc = "reading"
    /\ master' = MasterEnd(version, master)
    /\ pc' = "done"
    /\ UNCHANGED <<scoreVars, guiVars, csvVars>>
    /\ UNCHANGED <<memo, version, lines, unsorted>>
    /\ UNCHANGED engineVars
    /\ UNCHANGED cliVars

NextMaster == ReadMasterLine \/ EndMaster

SpecMaster == InitMaster /\ [][NextMaster]_vars

\* ------------------------------------------------------------------------
\* parse_unsorted_studies over every file of at most MaxLines lines
\* ------------------------------------------------------------------------
UL_BLANK == <<>>
UL_STUDY_2020 == <<"2","0","2","0"," ","A","b">>
UL_STUDY_2021 == <<"2","0","2","1"," ","e","f">>
UL_TEXT == <<"m","o","r","e">>
\* the footer alone, behind a study, behind plain text, and with a year behind it
UL_END == END_MARKER
UL_STUDY_END == <<"2","0","1","9"," ","z","z"," ">> \o END_MARKER
UL_TEXT_END == <<"m","o","r","e"," ">> \o END_MARKER
UL_END_STUDY == END_MARKER \o <<" ","2","0","1","8"," ","q">>
UnsortedLines == {UL_BLANK, UL_STUDY_2020, UL_STUDY_2021, UL_TEXT,
                  UL_END, UL_STUDY_END, UL_TEXT_END, UL_END_STUDY}

InitUnsorted ==
    /\ memo = NoTables
    /\ version \in {"new", "old"}
    /\ IdleEngine
    /\ pc = "reading"
    /\ lines = <<>>
    /\ master = MasterStart
    /\ unsorted = UnsortedStart
    /\ NoCommandLine
    /\ NoScoring /\ NoPipeline /\ NoCsv

\* one iteration of "for raw in f"; after a break no line is read any more
ReadUnsortedLine ==
    /\ pc = "reading"
    /\ ~unsorted.stopped
    /\ Len(lines) < MaxLines
    /\ \E l \in UnsortedLines :
         /\ lines' = Append(lines, l)
         /\ unsorted' = UnsortedLine(version, unsorted, l)
    /\ UNCHANGED <<scoreVars, guiVars, csvVars>>
    /\ UNCHANGED <<memo, version, pc, master>>
    /\ UNCHANGED engineVars
    /\ UNCHANGED cliVars

\* the loop is over (end of file or break): the flush after it, and return studies
EndUnsorted ==
    /\ pc = "reading"
    /\ unsorted' = Flush(unsorted)
    /\ pc' = "done"
    /\ UNCHANGED <<scoreVars, guiVars, csvVars>>
    /\ UNCHANGED <<memo, version, lines, master>>
    /\ UNCHANGED engineVars
    /\ UNCHANGED cliVars

NextUnsorted == ReadUnsortedLine \/ EndUnsorted

SpecUnsorted == InitUnsorted /\ [][NextUnsorted]_vars

\* ------------------------------------------------------------------------
\* The command line (__main__ of sorterv2.py): one run of the process
\* ------------------------------------------------------------------------
\* the unsorted files of the runs: one study, two studies with a blank line
\* between them, and an empty file
UF_ONE == <<U_EXACT>>
UF_TWO == <<U_RED_ZZ, <<>>, U_OTHER_YEAR>>
UF_NONE == <<>>
UnsortedFiles == {UF_ONE, UF_TWO, UF_NONE}

InputPaths == {"master", "master_b", "unsorted"}
OutputPaths == {"out", "docx_out", "audit"}

\* the steps inside the try block that the environment can make raise
\* (an unreadable encoding, a directory in place of a file, a full disk,
\* python-docx not installed)
Steps == {"parse_master", "parse_master_b", "parse_unsorted", "write_text", "write_docx", "write_audit"}
Faults == Steps \cup {"none"}

\* raise SystemExit(2) of the three file checks, raise SystemExit(1) of the
\* except clause, and the status of a process that runs to its end
EXIT_NOT_FOUND == 2
EXIT_OK == 0
\* as EXIT_ERROR, but the except clause only prints the error and the process ends normally
EXIT_ERROR_Swallowed == EXIT_OK
EXIT_ERROR == 1

InitMain ==
    /\ memo \in {Tables}
    /\ version = "new"
    /\ IdleEngine  \* --threshold keeps its default, 0.8
    /\ lines = <<>>
    /\ master = MasterStart
    /\ unsorted = UnsortedStart
    /\ args \in [master_b : BOOLEAN, docx_out : BOOLEAN]
    /\ \E fc \in MasterFilesC, fb \in MasterFilesB, fu \in UnsortedFiles :
         inputs = [master |-> fc, master_b |-> IF args.master_b THEN fb ELSE <<>>, unsorted |-> fu]
    /\ \E present \in SUBSET InputPaths :
         files = IF args.master_b THEN present ELSE present \ {"master_b"}
    /\ fault \in Faults
    /\ status = -1
    /\ audit_file = <<>>
    /\ pc = "check"
    /\ NoScoring /\ NoPipeline /\ NoCsv

Exit(code) ==
    /\ status' = code
    /\ pc' = "exit"

\* the three os.path.isfile checks in front of the try block
CheckFiles ==
    /\ pc = "check"
    /\ IF "master" \notin files THEN Exit(EXIT_NOT_FOUND)
       ELSE IF args.master_b /\ "master_b" \notin files THEN Exit(EXIT_NOT_FOUND)
       ELSE IF "unsorted" \notin files THEN Exit(EXIT_NOT_FOUND)
       ELSE pc' = "parse" /\ UNCHANGED status
    /\ UNCHANGED <<args, files, inputs, fault, audit_file>>
    /\ UNCHANGED engineVars
    /\ UNCHANGED <<scoreVars, guiVars, csvVars>>
    /\ UNCHANGED <<memo, version, lines, master, unsorted>>

\* the step raises in this run (parse_master_b and write_docx only run when asked for)
Raises(step) ==
    /\ fault = step
    /\ step = "parse_master_b" => args.master_b
    /\ step = "write_docx" => args.docx_out

\* parse_master_hierarchy(args.master), parse_master_hierarchy(args.master_b)
\* when given, parse_unsorted_studies(args.unsorted)
ParseFiles ==
    /\ pc = "parse"
    /\ IF Raises("parse_master") \/ Raises("parse_master_b") \/ Raises("parse_unsorted")
       THEN /\ Exit(EXIT_ERROR)
            /\ UNCHANGED <<phases_c, phases_b, master_b_given, unsorted_studies>>
       ELSE /\ phases_c' = parse_master_hierarchy(version, inputs.master)
            /\ phases_b' = IF args.master_b THEN parse_master_hierarchy(version, inputs.master_b) ELSE <<>>
            /\ master_b_given' = args.master_b
            /\ unsorted_studies' = parse_unsorted_studies(version, inputs.unsorted)
            /\ pc' = "categorize"
            /\ UNCHANGED status
    /\ UNCHANGED <<args, files, inputs, fault, audit_file>>
    /\ UNCHANGED <<threshold, pos, categorized, audit_rows, last, placed, again>>
    /\ UNCHANGED <<scoreVars, guiVars, csvVars>>
    /\ UNCHANGED <<memo, version, lines, master, unsorted>>

\* categorized, audit = categorize_with_master(...); a KeyError goes to the except clause
Categorize ==
    /\ pc = "categorize"
    /\ \E r \in {categorize_with_master(version, phases_c, phases_b, master_b_given,
                                         unsorted_studies, threshold)} :
          IF r.raised
          THEN /\ Exit(EXIT_ERROR)
               /\ UNCHANGED <<categorized, audit_rows>>
          ELSE /\ categorized' = r.categorized
               /\ audit_rows' = r.audit_rows
               /\ pc' = "write_text"
               /\ UNCHANGED status
    /\ UNCHANGED <<args, files, inputs, fault, audit_file>>
    /\ UNCHANGED <<phases_c, phases_b, master_b_given, unsorted_studies, threshold, pos, last, placed, again>>
    /\ UNCHANGED <<scoreVars, guiVars, csvVars>>
    /\ UNCHANGED <<memo, version, lines, master, unsorted>>

\* write_text(args.out, categorized, ...): a failing write may leave the file behind
WriteText ==
    /\ pc = "write_text"
    /\ IF Raises("write_text")
       THEN /\ Exit(EXIT_ERROR)
            /\ files' \in {files, files \cup {"out"}}
       ELSE /\ files' = files \cup {"out"}
            /\ pc' = "write_docx"
            /\ UNCHANGED status
    /\ UNCHANGED <<args, inputs, fault, audit_file>>
    /\ UNCHANGED engineVars
    /\ UNCHANGED <<scoreVars, guiVars, csvVars>>
    /\ UNCHANGED <<memo, version, lines, master, unsorted>>

\* if args.docx_out is not None: write_docx(args.docx_out, categorized, ...)
WriteDocx ==
    /\ pc = "write_docx"
    /\ IF ~args.docx_out
       THEN /\ pc' = "write_audit"
            /\ UNCHANGED <<files, status>>
       ELSE IF Raises("write_docx")
       THEN /\ Exit(EXIT_ERROR)
            /\ UNCHANGED files
       ELSE /\ files' = files \cup {"docx_out"}
            /\ pc' = "write_audit"
            /\ UNCHANGED status
    /\ UNCHANGED <<args, inputs, fault, audit_file>>
    /\ UNCHANGED engineVars
    /\ UNCHANGED <<scoreVars, guiVars, csvVars>>
    /\ UNCHANGED <<memo, version, lines, master, unsorted>>

\* the audit file: the header line, then one line per audit row
WriteAudit ==
    /\ pc = "write_audit"
    /\ IF Raises("write_audit")
       THEN /\ Exit(EXIT_ERROR)
            /\ files' \in {files, files \cup {"audit"}}
            /\ UNCHANGED audit_file
       ELSE /\ files' = files \cup {"audit"}
            /\ audit_file' = [k \in 1..Len(audit_rows) |-> AuditLine(audit_rows[k])]
            /\ pc' = "remove"
            /\ UNCHANGED status
    /\ UNCHANGED <<args, inputs, fault>>
    /\ UNCHANGED engineVars
    /\ UNCHANGED <<scoreVars, guiVars, csvVars>>
    /\ UNCHANGED <<memo, version, lines, master, unsorted>>

\* os.remove(args.master), and os.remove(args.master_b) when given; an
\* exception of either removal is passed over and leaves the file in place
RemoveMasters ==
    /\ pc = "remove"
    /\ \E kept \in SUBSET {"master", "master_b"} :
         files' = (files \ {"master", "master_b"}) \cup (kept \cap files)
    /\ pc' = "finish"
    /\ UNCHANGED <<args, inputs, fault, status, audit_file>>
    /\ UNCHANGED engineVars
    /\ UNCHANGED <<scoreVars, guiVars, csvVars>>
    /\ UNCHANGED <<memo, version, lines, master, unsorted>>

\* print('Done.') and the end of the script
Finish ==
    /\ pc = "finish"
    /\ Exit(EXIT_OK)
    /\ UNCHANGED <<args, files, inputs, fault, audit_file>>
    /\ UNCHANGED engineVars
    /\ UNCHANGED <<scoreVars, guiVars, csvVars>>
    /\ UNCHANGED <<memo, version, lines, master, unsorted>>

NextMain ==
    CheckFiles \/ ParseFiles \/ Categorize \/ WriteText \/ WriteDocx \/ WriteAudit \/ RemoveMasters \/ Finish

SpecMain == InitMain /\ [][NextMain]_vars

\* ------------------------------------------------------------------------
\* similarity_score and combined_similarity, called on two texts
\* ------------------------------------------------------------------------
T_EMPTY == <<>>  \* ""
T_YEAR == <<"2","0","2","0">>  \* "2020"
T_PUNCT == <<"2","0","2","0"," ","-","-","-">>  \* "2020 ---"
T_STOP == <<"2","0","2","0"," ","S","t","u","d","y"," ","o","f">>  \* "2020 Study of"
T_AB == <<"2","0","2","0"," ","A","b",":"," ","c","d">>  \* "2020 Ab: cd"
T_AB_STUDY == <<"2","0","2","0"," ","a","b"," ","s","t","u","d","y"," ","c","d">>  \* "2020 ab study cd"
T_AB_PLACEBO == <<"2","0","1","9"," ","t","h","e"," ","a","b"," ","c","d"," ","p","l","a","c","e","b","o">>  \* "2019 the ab cd placebo"
T_QQ == <<"2","0","2","0"," ","q","q">>  \* "2020 qq"
ScoreTexts == {T_EMPTY, T_YEAR, T_PUNCT, T_STOP, T_AB, T_AB_STUDY, T_AB_PLACEBO, T_QQ}

InitScore ==
    /\ memo = NoTables
    /\ version \in {"new", "old"}
    /\ IdleEngine
    /\ pc = "call"
    /\ lines = <<>>
    /\ master = MasterStart
    /\ unsorted = UnsortedStart
    /\ NoCommandLine
    /\ NoPipeline /\ NoCsv
    /\ texts \in ScoreTexts \X ScoreTexts
    /\ scored = <<>>

\* the two-master engine: similarity_score(norm_u, c_after_norm[i]) on the
\* texts normalized by normalize_after_year; r_seq and r_jac are computed
\* only when neither text is empty
ScoreNew ==
    /\ pc = "call"
    /\ version = "new"
    /\ \E a_norm \in {normalize_after_year(texts[1])}, b_norm \in {normalize_after_year(texts[2])} :
         scored' = [a_norm |-> a_norm, b_norm |-> b_norm,
                    seq |-> IF a_norm = <<>> \/ b_norm = <<>> THEN None ELSE ratio(a_norm, b_norm),
                    jac |-> IF a_norm = <<>> \/ b_norm = <<>> THEN None ELSE r_jac(a_norm, b_norm),
                    score |-> similarity_score(a_norm, b_norm)]
    /\ pc' = "done"
    /\ UNCHANGED <<memo, version, lines, master, unsorted, texts>>
    /\ UNCHANGED <<engineVars, cliVars, guiVars, csvVars>>

\* the old engine: combined_similarity(u, m_orig[i]) on the raw texts
ScoreOld ==
    /\ pc = "call"
    /\ version = "old"
    /\ scored' = [a_norm |-> normalize_text(texts[1]), b_norm |-> normalize_text(texts[2]),
                  seq |-> ratio(normalize_text(texts[1]), normalize_text(texts[2])),
                  jac |-> jaccard_similarity(texts[1], texts[2]),
                  score |-> combined_similarity(texts[1], texts[2])]
    /\ pc' = "done"
    /\ UNCHANGED <<memo, version, lines, master, unsorted, texts>>
    /\ UNCHANGED <<engineVars, cliVars, guiVars, csvVars>>

NextScore == ScoreNew \/ ScoreOld

SpecScore == InitScore /\ [][NextScore]_vars

\* ------------------------------------------------------------------------
\* tab1_process of cv_gui_all_in_one.py: the One Click pipeline. Each step
\* is a run_cmd call that starts a script and waits for it
\* ------------------------------------------------------------------------
\* what can become of a run_cmd call: the script exits with status 0, 1 or
\* 2, or Popen raises and nothing is started
Outcomes ==
    {[started |-> TRUE, returncode |-> 0], [started |-> TRUE, returncode |-> 1],
     [started |-> TRUE, returncode |-> 2], [started |-> FALSE, returncode |-> -1]}

\* as run_cmd, but the exit status is not looked at
run_cmd_IgnoreExitCode(o) == o.started

\* the value run_cmd returns
run_cmd(o) == o.started /\ o.returncode = 0

InitPipeline ==
    /\ memo = NoTables
    /\ version = "new"
    /\ IdleEngine
    /\ lines = <<>>
    /\ master = MasterStart
    /\ unsorted = UnsortedStart
    /\ NoCommandLine
    /\ NoScoring /\ NoCsv
    /\ gui \in [cv_ok : BOOLEAN, csv_ok : BOOLEAN, do_split : BOOLEAN, master_red : BOOLEAN]
    /\ launched = <<>>
    /\ message = "none"
    /\ pc = "validate"

PipelineUnchanged ==
    /\ UNCHANGED <<memo, version, lines, master, unsorted, gui>>
    /\ UNCHANGED <<engineVars, cliVars, scoreVars, csvVars>>

\* the two checks of the selected files
Validate ==
    /\ pc = "validate"
    /\ IF ~gui.cv_ok THEN message' = "Select a valid ORIGINAL CV (.docx)" /\ pc' = "returned"
       ELSE IF ~gui.csv_ok THEN message' = "Select a valid mapping CSV (.csv)" /\ pc' = "returned"
       ELSE message' = message /\ pc' = "extract"
    /\ UNCHANGED launched
    /\ PipelineUnchanged

\* "if not run_cmd(logwin, args): return" for the script of step at, then on to next
Launch(at, next) ==
    /\ pc = at
    /\ \E o \in Outcomes :
         /\ launched' = Append(launched, [step |-> at, started |-> o.started, returncode |-> o.returncode])
         /\ pc' = IF run_cmd(o) THEN next ELSE "returned"
    /\ UNCHANGED message
    /\ PipelineUnchanged

Extract == Launch("extract", "resolve")
Resolve == Launch("resolve", "csv_to_master")
CsvToMaster == Launch("csv_to_master", "sort")
Sort == Launch("sort", IF gui.master_red THEN "merge" ELSE "inject")
Merge == Launch("merge", "inject")
Inject == Launch("inject", IF gui.do_split THEN "split" ELSE "cleanup")
Split == Launch("split", "cleanup")

\* the temporary files are deleted and the success message is printed
Success ==
    /\ pc = "cleanup"
    /\ message' = "Success"
    /\ pc' = "returned"
    /\ UNCHANGED launched
    /\ PipelineUnchanged

NextPipeline ==
    Validate \/ Extract \/ Resolve \/ CsvToMaster \/ Sort \/ Merge \/ Inject \/ Split \/ Success

SpecPipeline == InitPipeline /\ [][NextPipeline]_vars

\* ------------------------------------------------------------------------
\* main of csv_to_no_red_master.py: the rows of the mapping CSV (column A a
\* header or a year, column B the red-label text, column C the no-red text)
\* are written to the Column C and the Column B master files. A row is the
\* list of cells csv.reader returns; a quoted cell may hold line breaks
\* ------------------------------------------------------------------------
MaxRows == 3

\* str.strip() of a cell, whose white space may be a line break
RECURSIVE strip_cell(_)
strip_cell(s) ==
    IF s = <<>> THEN s
    ELSE IF s[1] \in {" ", "\t", "\n"} THEN strip_cell(Tail(s))
    ELSE IF s[Len(s)] \in {" ", "\t", "\n"} THEN strip_cell(SubSeq(s, 1, Len(s) - 1))
    ELSE s

is_year(value) ==
    LET v == strip_cell(value) IN Len(v) = 4 /\ \A k \in 1..4 : IsDigit(v[k])

R_NONE == <<>>                                             \* an empty line of the CSV
R_PHASE == <<ML_PHASE_I>>                                  \* Phase I
R_CAT == <<<<"C","a","t"," ","A">>, <<>>, <<>>>>           \* Cat A,,
R_BLANK == <<<<" ">>, <<>>, <<>>>>                         \* " ",,
R_YEAR_ONLY == <<<<"2","0","2","0">>>>                     \* 2020
R_STUDY == <<<<"2","0","2","0">>, <<"A","b",":"," ","c","d"," ","R","E","D">>, <<"A","b",":"," ","c","d"," ">>>>  \* 2020,Ab: cd RED,"Ab: cd "
R_ONLY_B == <<<<"2","0","2","1">>, <<"e","f">>>>           \* 2021,ef
R_ONLY_C == <<<<"2","0","1","9">>, <<>>, <<"g","h">>>>     \* 2019,,gh
R_TWO_LINES == <<<<"2","0","2","0">>, <<"a","b"," ","R","E","D","\n","2","0","1","9"," ","z","z">>, <<"a","b">>>>  \* 2020,"ab RED<line break>2019 zz",ab
CsvRows == {R_NONE, R_PHASE, R_CAT, R_BLANK, R_YEAR_ONLY, R_STUDY, R_ONLY_B, R_ONLY_C, R_TWO_LINES}

RECURSIVE RowsUpTo(_)
RowsUpTo(n) ==
    IF n = 0 THEN {<<>>}
    ELSE RowsUpTo(n - 1) \cup {Append(rs, r) : rs \in {x \in RowsUpTo(n - 1) : Len(x) = n - 1}, r \in CsvRows}

InitCsv ==
    /\ memo = NoTables
    /\ version = "new"
    /\ IdleEngine
    /\ lines = <<>>
    /\ master = MasterStart
    /\ unsorted = UnsortedStart
    /\ NoCommandLine
    /\ NoScoring /\ NoPipeline
    /\ \E rows \in RowsUpTo(MaxRows), has_header \in BOOLEAN :
         reader = [rows |-> rows, has_header |-> has_header, first |-> TRUE, line_num |-> 0]
    /\ out_c = <<>>
    /\ out_b = <<>>
    /\ pc = "rows"

CsvUnchanged ==
    /\ UNCHANGED <<memo, version, lines, master, unsorted>>
    /\ UNCHANGED <<engineVars, cliVars, scoreVars, guiVars>>

\* the row the loop is at, and its three columns
Row == Head(reader.rows)
col_a == strip_cell(Row[1])
col_b == IF Len(Row) > 1 THEN strip_cell(Row[2]) ELSE <<>>
col_c == IF Len(Row) > 2 THEN strip_cell(Row[3]) ELSE <<>>

\* the lines of the CSV a row takes: one, and one more for every line break
\* in its cells
RowLines(row) ==
    1 + Cardinality(UNION {{<<c, k>> : k \in {j \in 1..Len(row[c]) : row[c][j] = "\n"}} :
                             c \in 1..Len(row)})

\* the reader after the row: reader.line_num counts the lines read, and
\* first is cleared unless the row was an empty list
NextRow(first) ==
    [reader EXCEPT !.rows = Tail(@), !.first = first, !.line_num = @ + RowLines(Row)]

AtRow == pc = "rows" /\ reader.rows # <<>>
IsTitleRow == reader.has_header /\ reader.first

\* "if not row: continue"
SkipEmptyRow ==
    /\ AtRow /\ Row = <<>>
    /\ reader' = NextRow(reader.first)
    /\ UNCHANGED <<pc, out_c, out_b>>
    /\ CsvUnchanged

\* the title row of a CSV read with --has-header
SkipTitleRow ==
    /\ AtRow /\ Row # <<>> /\ IsTitleRow
    /\ reader' = NextRow(FALSE)
    /\ UNCHANGED <<pc, out_c, out_b>>
    /\ CsvUnchanged

\* a row whose three cells are blank
SkipBlankRow ==
    /\ AtRow /\ Row # <<>> /\ ~IsTitleRow
    /\ col_a = <<>> /\ col_b = <<>> /\ col_c = <<>>
    /\ reader' = NextRow(FALSE)
    /\ UNCHANGED <<pc, out_c, out_b>>
    /\ CsvUnchanged

\* a row with a year in column A: a study line for each file, from its own
\* column or, when that is blank, from the other
YearRow ==
    /\ AtRow /\ Row # <<>> /\ ~IsTitleRow
    /\ ~(col_a = <<>> /\ col_b = <<>> /\ col_c = <<>>)
    /\ is_year(col_a)
    /\ LET desc_c == IF col_c # <<>> THEN col_c ELSE col_b
           desc_b == IF col_b # <<>> THEN col_b ELSE col_c
       IN /\ out_c' = IF desc_c # <<>> THEN out_c \o col_a \o <<" ">> \o desc_c \o <<"\n">> ELSE out_c
          /\ out_b' = IF desc_b # <<>> THEN out_b \o col_a \o <<" ">> \o desc_b \o <<"\n">> ELSE out_b
    /\ reader' = NextRow(FALSE)
    /\ UNCHANGED pc
    /\ CsvUnchanged

\* any other row: column A is a header line of both files
HeaderRow ==
    /\ AtRow /\ Row # <<>> /\ ~IsTitleRow
    /\ ~(col_a = <<>> /\ col_b = <<>> /\ col_c = <<>>)
    /\ ~is_year(col_a)
    /\ out_c' = IF col_a # <<>> THEN out_c \o col_a \o <<"\n">> ELSE out_c
    /\ out_b' = IF col_a # <<>> THEN out_b \o col_a \o <<"\n">> ELSE out_b
    /\ reader' = NextRow(FALSE)
    /\ UNCHANGED pc
    /\ CsvUnchanged

\* the end of the with block: both files are closed
CloseFiles ==
    /\ pc = "rows" /\ reader.rows = <<>>
    /\ pc' = "done"
    /\ UNCHANGED <<reader, out_c, out_b>>
    /\ CsvUnchanged

NextCsv == SkipEmptyRow \/ SkipTitleRow \/ SkipBlankRow \/ YearRow \/ HeaderRow \/ CloseFiles

SpecCsv == InitCsv /\ [][NextCsv]_vars

\* the lines the master parser reads from a file: "for raw in f" with
\* raw.rstrip('\n')
RECURSIVE FileLines(_)
FileLines(text) ==
    IF text = <<>> THEN <<>>
    ELSE LET n == CHOOSE k \in 1..(Len(text) + 1) :
                    /\ k = Len(text) + 1 \/ text[k] = "\n"
                    /\ \A j \in 1..(k - 1) : text[j] # "\n"
         IN <<SubSeq(text, 1, n - 1)>> \o FileLines(SubSeq(text, n + 1, Len(text)))

\* ========================================================================
\* Properties of categorize_with_master (Spec)
\* ========================================================================
FlatC == flatten_studies(phases_c)
FlatB == flatten_studies(phases_b)
Returned == pc \in {"done", "twice"}

\* the comparison text and the score of the engine in use
Norm(s) == Normalized(version, s)
ScoreOf(u, s) == Score(version, u, s)

RECURSIVE CountCats(_)
CountCats(cats) == IF cats = <<>> THEN 0 ELSE Len(cats[1].items) + CountCats(Tail(cats))

RECURSIVE CountEntries(_)
CountEntries(cz) == IF cz = <<>> THEN 0 ELSE CountCats(cz[1].cats) + CountEntries(Tail(cz))

\* the (phase, category) positions of a result map
Buckets(cz) == UNION {{<<p, c>> : c \in 1..Len(cz[p].cats)} : p \in 1..Len(cz)}

IsUncategorizedRow(r) == r.m = None /\ r.ph = "None" /\ r.cat = None

\* C1: the audit log has exactly one row per candidate, in input order: row k
\* holds the raw text of candidate k, after every iteration of the loop and
\* when the function returns, whatever the outcome for the candidate
C1_AuditRowPerCandidate ==
    /\ pc \in {"loop", "done"} =>
         /\ Len(audit_rows) = pos - 1
         /\ \A k \in 1..Len(audit_rows) : audit_rows[k].u = unsorted_studies[k]
    /\ Returned => Len(audit_rows) = Len(unsorted_studies)

\* an unmatched candidate followed by one matched through the secondary
C1_Witness ==
    /\ Returned
    /\ Len(unsorted_studies) = 2
    /\ IsUncategorizedRow(audit_rows[1])
    /\ last.via = "secondary"
    /\ audit_rows[2].m # None

\* C2: on return the buckets hold as many entries as there were candidates:
\* every candidate was placed once, in one bucket
C2_EveryCandidatePlacedOnce ==
    /\ pc = "loop" => CountEntries(categorized) = pos - 1
    /\ Returned => CountEntries(categorized) = Len(unsorted_studies)

\* two candidates, one in a bucket of the master, one in Uncategorized
C2_Witness ==
    /\ Returned
    /\ Len(unsorted_studies) = 2
    /\ Len(Items(categorized, "Uncategorized", UNCATEGORIZED)) = 1
    /\ audit_rows[1].m # None

\* the primary entries with the year and the normalized text of candidate u
ExactEntries(u) ==
    {j \in 1..Len(FlatC) : /\ extract_year(FlatC[j].s) = extract_year(u)
                           /\ Norm(FlatC[j].s) = Norm(u)}

C4_YearScoped ==
    /\ pos > 1 =>
         LET u_year == extract_year(unsorted_studies[pos - 1]) IN
         /\ (last.best_idx_c # 0 /\ last.via # "exact") =>
               u_year # None /\ extract_year(FlatC[last.best_idx_c].s) = u_year
         /\ last.best_idx_b # 0 =>
               u_year # None /\ extract_year(FlatB[last.best_idx_b].s) = u_year
    /\ \A k \in 1..Len(audit_rows) :
         extract_year(unsorted_studies[k]) = None => IsUncategorizedRow(audit_rows[k])

\* the master's first entry without its year stays unmatched at threshold 0,
\* and a 2021 candidate is matched to the 2021 entry among 2020 entries
C4_Witness ==
    /\ Returned
    /\ threshold = <<0, 100>>
    /\ unsorted_studies = <<U_NO_YEAR, U_RED_2021>>
    /\ IsUncategorizedRow(audit_rows[1])
    /\ last.via = "primary"
    /\ Len(FlatC) = 4
    /\ extract_year(FlatC[last.best_idx_c].s) = <<"2","0","2","1">>

\* the best score of u over the same-year entries of a flattened taxonomy
SameYearEntries(flat, u) ==
    {j \in 1..Len(flat) : extract_year(u) # None /\ extract_year(flat[j].s) = extract_year(u)}

IsBest(flat, u, sc) ==
    /\ \E j \in SameYearEntries(flat, u) : Eq(ScoreOf(u, flat[j].s), sc)
    /\ \A j \in SameYearEntries(flat, u) : ~Lt(sc, ScoreOf(u, flat[j].s))

AllBelow(flat, u, sc) == \A j \in SameYearEntries(flat, u) : Lt(ScoreOf(u, flat[j].s), sc)

\* C5, as claimed: with a threshold in [0, 1], a candidate (with text after
\* its year) whose best same-year score equals the threshold is matched, and
\* one whose same-year scores are all below it is left uncategorized
C5_ThresholdInclusive ==
    (Geq(threshold, Zero) /\ Geq(One, threshold)) =>
        \A k \in 1..Len(audit_rows) :
            LET u == unsorted_studies[k]
                r == audit_rows[k]
            IN strip(strip_leading_year(u)) # <<>> =>
                /\ IsBest(FlatC, u, threshold) => r.m # None
                /\ (AllBelow(FlatC, u, threshold) /\ AllBelow(FlatB, u, threshold)) =>
                      IsUncategorizedRow(r)

\* every bucket of the result is ordered by year, descending, the entries
\* without a valid year last, and entries of one year in the order in which
\* the loop placed them
SameYearItems(items, y) == SelectSeq(items, LAMBDA t : year_as_int(t[1]) = y)

BucketSorted(before, after) ==
    /\ Len(after) = Len(before)
    /\ \A k \in 1..(Len(after) - 1) : year_as_int(after[k][1]) >= year_as_int(after[k + 1][1])
    /\ \A k, n \in 1..Len(after) :
         (year_as_int(after[k][1]) = -1 /\ year_as_int(after[n][1]) # -1) => n < k
    /\ \A k \in 1..Len(before) :
         SameYearItems(after, year_as_int(before[k][1])) = SameYearItems(before, year_as_int(before[k][1]))

\* C6: on return every bucket is sorted by integer year, descending, entries
\* without a valid year behind all others, equal years in placement order
C6_SortedByYearDescStable ==
    Returned =>
        /\ Len(categorized) = Len(placed)
        /\ \A b \in Buckets(categorized) :
             BucketSorted(placed[b[1]].cats[b[2]].items, categorized[b[1]].cats[b[2]].items)

\* a candidate without a year was placed before a dated one, and the sort
\* has moved it behind
C6_Witness ==
    /\ Returned
    /\ unsorted_studies = <<U_NO_YEAR, U_OTHER_YEAR>>
    /\ Items(placed, "Uncategorized", UNCATEGORIZED)[1][1] = <<>>
    /\ Items(categorized, "Uncategorized", UNCATEGORIZED)[2][1] = <<>>
    /\ Items(categorized, "Uncategorized", UNCATEGORIZED)[1][1] = <<"2","0","1","9">>

\* C7, as claimed: a candidate placed by the secondary pass is emitted with
\* the line, phase and category of the primary entry at the same flattened
\* index
C7_SecondaryEmitsPrimary ==
    (pos > 1 /\ last.via = "secondary" /\ pc # "raised") =>
        /\ last.best_idx_b <= Len(FlatC)
        /\ audit_rows[pos - 1].m = FlatC[last.best_idx_b].s
        /\ audit_rows[pos - 1].ph = FlatC[last.best_idx_b].ph
        /\ audit_rows[pos - 1].cat = FlatC[last.best_idx_b].cat

\* C8, as claimed: categorize_with_master never raises
C8_NeverRaises == pc # "raised"

\* ========================================================================
\* Properties of parse_unsorted_studies (SpecUnsorted)
\* ========================================================================
HasMarker(l) == Find(l, END_MARKER) # 0

\* the lines up to the first one with the end marker, that one cut at the marker
UpToMarker(ls) ==
    LET k == SetMin({n \in 1..Len(ls) : HasMarker(ls[n])})
    IN SubSeq(ls, 1, k - 1) \o <<SubSeq(ls[k], 1, Find(ls[k], END_MARKER) - 1)>>

\* C9, as claimed: once a line with the end marker has been read, the text
\* behind the marker and every later line contribute nothing: the studies
\* returned are those of the input cut at the first marker
C9_NothingAfterEndMarker ==
    (pc = "done" /\ version = "new" /\ \E n \in 1..Len(lines) : HasMarker(lines[n])) =>
        unsorted.studies = parse_unsorted_studies("new", UpToMarker(lines))

\* ========================================================================
\* Properties of parse_master_hierarchy (SpecMaster)
\* ========================================================================
\* a line that is neither blank, nor a phase header, nor a year line
IsPlainLine(l) == strip(l) # <<>> /\ is_phase_header(l) = "None" /\ ~YEAR_LINE(l)

\* the loop reads a plain line while a study is being accumulated
ReadsPlainLineInStudy ==
    /\ pc = "reading"
    /\ Len(lines') = Len(lines) + 1
    /\ IsPlainLine(lines'[Len(lines')])
    /\ master.current_study # None

ReadsYearLine ==
    /\ pc = "reading"
    /\ Len(lines') = Len(lines) + 1
    /\ strip(lines'[Len(lines')]) # <<>>
    /\ is_phase_header(lines'[Len(lines')]) = "None"
    /\ YEAR_LINE(lines'[Len(lines')])

\* the study that begins with the line just read is filed under ph and cat:
\* they are the current phase and category, with a bucket, and the line is
\* the buffer that the next commit appends to that bucket
FiledUnder(ph, cat) ==
    /\ master'.current_phase = ph
    /\ master'.current_category = cat
    /\ master'.current_study = strip(lines'[Len(lines')])
    /\ HasBucket(master'.phases, ph, cat)

MasterAfter(v, f, i) == MasterFold(v, MasterStart, SubSeq(f, 1, i))

\* line i of f is read as a category header: a plain line that names a
\* category (and, in the old parser, is not the continuation of a study)
IsCategoryHeaderAt(v, f, i) ==
    /\ IsPlainLine(f[i])
    /\ IF v = "new" THEN StripColon(f[i]) # <<>>
       ELSE MasterAfter(v, f, i - 1).current_study = None

\* no year line of f is read under (ph, cat)
NoStudyUnder(v, f, ph, cat) ==
    \A j \in 1..Len(f) :
        YEAR_LINE(f[j]) =>
            ~(MasterAfter(v, f, j).current_phase = ph /\ MasterAfter(v, f, j).current_category = cat)

\* the (phase, category) of the category headers of f with no study under them
EmptyHeaders(v, f) ==
    {b \in {<<MasterAfter(v, f, i).current_phase, MasterAfter(v, f, i).current_category>> :
               i \in {j \in 1..Len(f) : IsCategoryHeaderAt(v, f, j)}} :
        NoStudyUnder(v, f, b[1], b[2])}

\* (written out once for the master files of the pool)
EMPTY_HEADERS ==
    [v \in {"new", "old"} |->
        [f \in MasterFilesC |-> DOMAIN ([b \in EmptyHeaders(v, f) |-> 0] @@ <<>>)] @@ <<>>] @@ <<>>

NoRowNames(ph, cat) == \A k \in 1..Len(audit_rows) : ~(audit_rows[k].ph = ph /\ audit_rows[k].cat = cat)

\* C11: a category header of the master with no study under it gives a bucket
\* that is there and empty in the parsed taxonomy, and that is there in the
\* result map throughout the run, empty as long as no candidate was matched
\* into it
C11_EmptyCategoryKept ==
    pc \in {"loop", "done"} =>
        \A b \in EMPTY_HEADERS[version][lines] :
            /\ HasBucket(phases_c, b[1], b[2])
            /\ Bucket(phases_c, b[1], b[2]) = <<>>
            /\ HasBucket(categorized, b[1], b[2])
            /\ NoRowNames(b[1], b[2]) => Items(categorized, b[1], b[2]) = <<>>

\* the master with three empty categories, one candidate matched into Cat A:
\* Cat E (before a category), Cat F (before a phase header) and Cat G (at the
\* end of the file) are returned empty
C11_Witness ==
    /\ Returned
    /\ lines = MASTER_C_EMPTY
    /\ unsorted_studies = <<U_EXACT>>
    /\ audit_rows[1].cat = <<"C","a","t"," ","A">>
    /\ EMPTY_HEADERS[version][lines] = {<<PHASE_I_LABEL, <<"C","a","t"," ","E">>>>,
                                        <<PHASE_I_LABEL, <<"C","a","t"," ","F">>>>,
                                        <<PHASE_II_IV_LABEL, <<"C","a","t"," ","G">>>>}
    /\ Items(categorized, PHASE_I_LABEL, <<"C","a","t"," ","E">>) = <<>>
    /\ Items(categorized, PHASE_I_LABEL, <<"C","a","t"," ","F">>) = <<>>
    /\ Items(categorized, PHASE_II_IV_LABEL, <<"C","a","t"," ","G">>) = <<>>
    /\ Len(Items(categorized, PHASE_I_LABEL, <<"C","a","t"," ","A">>)) = 1

\* the year of candidate u is the year of no entry of the primary taxonomy,
\* nor of the secondary one when it is given
NoSameYearEntry(u) ==
    /\ extract_year(u) # None
    /\ \A j \in 1..Len(FlatC) : extract_year(FlatC[j].s) # extract_year(u)
    /\ master_b_given => \A j \in 1..Len(FlatB) : extract_year(FlatB[j].s) # extract_year(u)

\* C12: a candidate whose year no master entry has is placed in
\* Uncategorized/Uncategorized as (its year, its text after the year, trimmed);
\* its audit row has no matched text, no phase, no category and score 0.0, and
\* its line of the audit file reads '', 'Uncategorized', 'Uncategorized', '0.000'
C12_NoSameYearIsUncategorized ==
    pc \in {"loop", "done"} =>
        \A k \in 1..Len(audit_rows) :
            LET u == unsorted_studies[k]
                r == audit_rows[k]
                items == Items(categorized, "Uncategorized", UNCATEGORIZED)
            IN NoSameYearEntry(u) =>
                 /\ r = AuditRow(u, None, "None", None, Zero)
                 /\ AuditLine(r) = <<u, <<>>, "Uncategorized", UNCATEGORIZED, <<"0",".","0","0","0">>>>
                 /\ \E t \in 1..Len(items) :
                        items[t] = <<extract_year(u), strip(strip_leading_year(u))>>

\* the two-master engine with both masters at threshold 0: "2019 qq" is
\* returned in Uncategorized/Uncategorized behind a matched candidate
C12_Witness ==
    /\ Returned
    /\ version = "new"
    /\ master_b_given
    /\ threshold = <<0, 100>>
    /\ unsorted_studies = <<U_EXACT, U_OTHER_YEAR>>
    /\ audit_rows[1].m = U_EXACT
    /\ Items(categorized, "Uncategorized", UNCATEGORIZED) = <<<<<<"2","0","1","9">>, <<"q","q">>>>>>

\* candidate u is the empty string, or its text after the year normalizes
\* to the empty string
HasNoText(u) == u = <<>> \/ normalize_after_year(u) = <<>>

MatchedEntry ==
    IF last.via = "secondary"
    THEN IF last.best_idx_b <= Len(FlatC) THEN FlatC[last.best_idx_b] ELSE FlatB[last.best_idx_b]
    ELSE FlatC[last.best_idx_c]

IsMatch(o) == o.via \in {"exact", "primary", "secondary"} /\ ~o.raised

\* C16: a category name under two phases names two buckets, and a matched
\* candidate is appended to the bucket of the (phase, category) of the master
\* entry it matched and to no other: the bucket of the same category name
\* under the other phase, like every other bucket, is left as it was
C16_PlacedInMatchedBucketOnly ==
    [][(pos' = pos + 1 /\ IsMatch(last')) =>
         /\ MatchedEntry'.ph = audit_rows'[pos].ph
         /\ MatchedEntry'.cat = audit_rows'[pos].cat
         /\ Buckets(categorized') = Buckets(categorized)
         /\ \A b \in Buckets(categorized) :
              LET before == categorized[b[1]].cats[b[2]]
                  after  == categorized'[b[1]].cats[b[2]]
              IN /\ categorized'[b[1]].ph = categorized[b[1]].ph
                 /\ after.cat = before.cat
                 /\ IF /\ categorized[b[1]].ph = MatchedEntry'.ph
                       /\ before.cat = MatchedEntry'.cat
                    THEN /\ Len(after.items) = Len(before.items) + 1
                         /\ SubSeq(after.items, 1, Len(before.items)) = before.items
                    ELSE after.items = before.items]_vars

\* Cat A stands under Phase I and under Phase II-IV with the same study; the
\* candidate matched the entry of Phase I and is in Phase I / Cat A, while
\* Phase II-IV / Cat A is empty
C16_Witness ==
    /\ lines = MASTER_C_FULL
    /\ pos = 2
    /\ IsMatch(last)
    /\ MatchedEntry.ph = PHASE_I_LABEL
    /\ MatchedEntry.cat = <<"C","a","t"," ","A">>
    /\ HasBucket(categorized, PHASE_II_IV_LABEL, <<"C","a","t"," ","A">>)
    /\ Len(Items(categorized, PHASE_I_LABEL, <<"C","a","t"," ","A">>)) = 1
    /\ Items(categorized, PHASE_II_IV_LABEL, <<"C","a","t"," ","A">>) = <<>>

\* index best is the first of the entries of flat, of the year of candidate u,
\* with the greatest score, and that score is best_score
FirstOfGreatest(u, flat, best, best_score) ==
    /\ best \in 1..Len(flat)
    /\ extract_year(flat[best].s) = extract_year(u)
    /\ Eq(ScoreOf(u, flat[best].s), best_score)
    /\ \A j \in 1..Len(flat) :
         extract_year(flat[j].s) = extract_year(u) =>
             /\ ~Lt(best_score, ScoreOf(u, flat[j].s))
             /\ Eq(ScoreOf(u, flat[j].s), best_score) => best <= j

\* the entries of flat behind index best that tie with it for candidate u
TiedBehind(u, flat, best) ==
    {j \in (best + 1)..Len(flat) : /\ extract_year(flat[j].s) = extract_year(u)
                                   /\ Eq(ScoreOf(u, flat[j].s), ScoreOf(u, flat[best].s))}

\* C17: the best index of a scoring pass is the first entry, in flattened
\* master order, among the same-year entries of the greatest score: a later
\* entry of the same score never replaces it
C17_FirstOfEqualScoresWins ==
    (pos > 1 /\ last.via \in {"primary", "secondary", "none"}) =>
        /\ last.best_idx_c # 0 =>
             FirstOfGreatest(unsorted_studies[pos - 1], FlatC, last.best_idx_c, last.best_score_c)
        /\ last.best_idx_b # 0 =>
             FirstOfGreatest(unsorted_studies[pos - 1], FlatB, last.best_idx_b, last.best_score_b)

\* two entries of the primary master, in different phases, tie for the
\* candidate with a score that clears the threshold; the first one is matched
C17_Witness ==
    /\ pos > 1
    /\ version = "new"
    /\ last.via = "primary"
    /\ TiedBehind(unsorted_studies[pos - 1], FlatC, last.best_idx_c) # {}
    /\ audit_rows[pos - 1].ph = FlatC[last.best_idx_c].ph
    /\ \E j \in TiedBehind(unsorted_studies[pos - 1], FlatC, last.best_idx_c) :
         FlatC[j].ph # FlatC[last.best_idx_c].ph

\* the keys of a taxonomy or of a result map, in order: the phases, each with
\* the names of its categories
KeysOf(m) ==
    [p \in 1..Len(m) |-> [ph |-> m[p].ph, cats |-> [c \in 1..Len(m[p].cats) |-> m[p].cats[c].cat]]]

\* the keys of the primary taxonomy and (Uncategorized, Uncategorized): the
\* category behind the categories of an Uncategorized phase of the primary,
\* or else as a phase of its own behind the phases of the primary
KeysWithUncategorized(keys) ==
    IF \E p \in 1..Len(keys) : keys[p].ph = "Uncategorized"
    THEN [p \in 1..Len(keys) |->
            IF keys[p].ph = "Uncategorized" /\ \A c \in 1..Len(keys[p].cats) : keys[p].cats[c] # UNCATEGORIZED
            THEN [keys[p] EXCEPT !.cats = Append(@, UNCATEGORIZED)]
            ELSE keys[p]]
    ELSE Append(keys, [ph |-> "Uncategorized", cats |-> <<UNCATEGORIZED>>])

\* C20: the (phase, category) keys of the result map are those of the primary
\* taxonomy, in its order, and (Uncategorized, Uncategorized), whose phase
\* comes last when the primary has no such phase; this is so before the first
\* candidate, after every candidate and on return, and for the result of the
\* second call: matching and sorting add and remove no bucket
C20_KeysAreThoseOfThePrimary ==
    /\ KeysOf(categorized) = KeysWithUncategorized(KeysOf(phases_c))
    /\ pc = "twice" => KeysOf(again.categorized) = KeysWithUncategorized(KeysOf(phases_c))

\* the master with two phases returned after a matched and an unmatched
\* candidate: Phase I with Cat A and Cat B, Phase II-IV with Cat A, then
\* Uncategorized with Uncategorized
C20_Witness ==
    /\ Returned
    /\ lines = MASTER_C_FULL
    /\ Len(audit_rows) = 2
    /\ audit_rows[1].m # None
    /\ IsUncategorizedRow(audit_rows[2])
    /\ KeysOf(categorized) =
         <<[ph |-> PHASE_I_LABEL, cats |-> << <<"C","a","t"," ","A">>, <<"C","a","t"," ","B">> >>],
           [ph |-> PHASE_II_IV_LABEL, cats |-> << <<"C","a","t"," ","A">> >>],
           [ph |-> "Uncategorized", cats |-> <<UNCATEGORIZED>>]>>

\* ========================================================================
\* Properties of the command line (SpecMain)
\* ========================================================================
Exited == pc = "exit"
Succeeded == Exited /\ status = EXIT_OK

\* the input files the run was given
GivenInputs == IF args.master_b THEN InputPaths ELSE InputPaths \ {"master_b"}

\* C15: after a successful run of the command line the master file, the
\* master-B file (when given) and the unsorted file still exist: the run
\* deletes none of its input files
C15_InputsKept ==
    Succeeded => GivenInputs \subseteq files

\* an input file the run was given does not exist
InputMissing == ~(GivenInputs \subseteq files)

\* the step the run is at raises an exception: a parser or a writer fails, or
\* categorize_with_master raises KeyError
StepRaises ==
    \/ pc = "parse" /\ (Raises("parse_master") \/ Raises("parse_master_b") \/ Raises("parse_unsorted"))
    \/ pc = "categorize" /\ categorize_with_master(version, phases_c, phases_b, master_b_given,
                                                   unsorted_studies, threshold).raised
    \/ pc = "write_text" /\ Raises("write_text")
    \/ pc = "write_docx" /\ Raises("write_docx")
    \/ pc = "write_audit" /\ Raises("write_audit")

NothingParsed == phases_c = <<>> /\ phases_b = <<>> /\ unsorted_studies = <<>>
NothingWritten == files \cap OutputPaths = {} /\ audit_file = <<>>

\* C19: when an input file the run was given does not exist, the file checks
\* end the process with a non-zero status, nothing parsed and no output file
\* written; a step that raises an exception ends the process with a non-zero
\* status; and the process does nothing after it has ended
C19_MissingInputOrExceptionExitsNonZero ==
    [][/\ pc # "exit"
       /\ (pc = "check" /\ InputMissing) =>
              (Exited' /\ status' > 0 /\ NothingParsed' /\ NothingWritten')
       /\ StepRaises => (Exited' /\ status' > 0)]_vars

\* the master file is there and the unsorted file is not: the run has ended
\* with status 2, nothing parsed and no output file written
C19_Witness ==
    /\ Exited
    /\ status = EXIT_NOT_FOUND
    /\ "master" \in files
    /\ "unsorted" \notin files
    /\ NothingParsed
    /\ NothingWritten

\* ========================================================================
\* Properties of the two passes of the two-master engine (Spec)
\* ========================================================================
\* some same-year entry of the primary scores at or above the threshold
ReachesThreshold(flat, u) ==
    \E j \in SameYearEntries(flat, u) : Geq(ScoreOf(u, flat[j].s), threshold)

\* C21, as claimed: in the two-master engine a candidate (with text after its
\* year) whose best same-year primary score is at or above the threshold is
\* placed by the primary pass without a look at the secondary taxonomy; the
\* secondary pass runs only when the primary reached no such score and a
\* non-empty secondary taxonomy was given; without a secondary taxonomy such
\* a candidate is uncategorized
C21_PrimaryHasPriority ==
    (version = "new" /\ pos > 1 /\ pc # "raised") =>
        LET u == unsorted_studies[pos - 1]
            r == audit_rows[pos - 1]
        IN /\ (ReachesThreshold(FlatC, u) /\ strip(strip_leading_year(u)) # <<>>) =>
                /\ last.via = "primary"
                /\ last.best_idx_b = 0
                /\ r.m = FlatC[last.best_idx_c].s
           /\ last.best_idx_b # 0 =>
                ~ReachesThreshold(FlatC, u) /\ master_b_given /\ FlatB # <<>>
           /\ (~ReachesThreshold(FlatC, u) /\ ~master_b_given) => IsUncategorizedRow(r)

\* ========================================================================
\* Properties of the phase headers of parse_master_hierarchy (SpecMaster)
\* ========================================================================
\* line i - 1 of the lines read is a phase header and line i a year line
StudyBehindHeader(i) ==
    /\ is_phase_header(lines[i - 1]) # "None"
    /\ strip(lines[i]) # <<>>
    /\ YEAR_LINE(lines[i])

\* what the phase header at line i did: the pending study went to the
\* (phase, category) that was current, the current phase is the header's
\* label and there is no current category
HeaderCommitsAndClears(i) ==
    LET b == MasterAfter(version, lines, i - 1)
        h == MasterAfter(version, lines, i)
    IN /\ h.current_phase = is_phase_header(lines[i])
       /\ h.current_category = None
       /\ h.current_study = None
       /\ IF Pending(b)
          THEN Bucket(h.phases, b.current_phase, b.current_category)
                 = Append(Bucket(b.phases, b.current_phase, b.current_category),
                          clean_space_tabs(b.current_study))
          ELSE \A p \in 1..Len(b.phases) : h.phases[p] = b.phases[p]

\* C22, as claimed: a phase header commits the pending study to the (phase,
\* category) that was current, sets the current phase to its label and
\* clears the current category, and a study read right behind the header is
\* never filed under the (phase, category) that was current before it
C22_StudyBehindHeaderLeavesBucket ==
    \A i \in 2..Len(lines) :
        StudyBehindHeader(i) =>
            LET b == MasterAfter(version, lines, i - 2)
                a == MasterAfter(version, lines, i)
            IN /\ HeaderCommitsAndClears(i - 1)
               /\ b.current_category # None =>
                    <<a.current_phase, a.current_category>> # <<b.current_phase, b.current_category>>

\* C22, amended: the header commits, sets the phase and clears the category
\* as claimed, and a study read right behind it is filed under the header's
\* phase and the parser's default category, which is the bucket that was
\* current before the header when that was the default category of the
\* same phase
C22_StudyBehindHeaderInDefaultCategory ==
    \A i \in 2..Len(lines) :
        StudyBehindHeader(i) =>
            LET a == MasterAfter(version, lines, i)
            IN /\ HeaderCommitsAndClears(i - 1)
               /\ a.current_phase = is_phase_header(lines[i - 1])
               /\ a.current_category = IF version = "new" THEN UNCATEGORIZED
                                       ELSE UNCATEGORIZED_FROM_MASTER
               /\ a.current_study = strip(lines[i])
               /\ HasBucket(a.phases, a.current_phase, a.current_category)

\* the current parser has read a category, a study, the header of another
\* phase and a second study: the first study is in the category's bucket and
\* the second in the default category of the header's phase
C22_Witness ==
    /\ version = "new"
    /\ pc = "done"
    /\ lines = <<ML_CAT_A, ML_STUDY_2020, ML_PHASE_II_IV, ML_STUDY_2021>>
    /\ Bucket(master.phases, PHASE_I_LABEL, <<"C","a","t"," ","A">>) = <<ML_STUDY_2020>>
    /\ Bucket(master.phases, PHASE_II_IV_LABEL, UNCATEGORIZED) = <<ML_STUDY_2021>>

\* ========================================================================
\* Properties of the similarity functions (SpecScore)
\* ========================================================================
Scored == scored # <<>>
BothEmpty == scored.a_norm = <<>> /\ scored.b_norm = <<>>
OneEmpty == (scored.a_norm = <<>>) # (scored.b_norm = <<>>)

\* C23, as claimed: two empty normalized texts score 1.0, and an empty and a
\* non-empty normalized text score 0.0
C23_EmptyTextsScoreOneOrZero ==
    Scored =>
        /\ BothEmpty => Eq(scored.score, One)
        /\ OneEmpty => Eq(scored.score, Zero)

\* the text of the pair whose normalized text is not empty
TheNonEmpty == IF scored.a_norm = <<>> THEN texts[2] ELSE texts[1]

\* C23, amended: similarity_score of the two-master engine scores 0.0 as soon
\* as one of the normalized texts is empty, two empty texts included, and
\* computes neither ratio; combined_similarity of the old engine scores two
\* empty texts 1.0 (sequence ratio 1.0, token overlap 1.0), and an empty and
\* a non-empty text 0.0, unless the non-empty text holds stop words only:
\* then the token overlap is 1.0 and the score 0.4
C23_EmptyTextsScoreOfEachEngine ==
    Scored =>
        IF version = "new"
        THEN (BothEmpty \/ OneEmpty) =>
                /\ Eq(scored.score, Zero)
                /\ scored.seq = None
                /\ scored.jac = None
        ELSE /\ BothEmpty =>
                /\ Eq(scored.seq, One)
                /\ Eq(scored.jac, One)
                /\ Eq(scored.score, One)
             /\ OneEmpty =>
                /\ Eq(scored.seq, Zero)
                /\ IF Tokens(normalize_text(TheNonEmpty)) \subseteq STOP
                   THEN Eq(scored.jac, One) /\ Eq(scored.score, <<4, 10>>)
                   ELSE Eq(scored.jac, Zero) /\ Eq(scored.score, Zero)

\* the old engine has scored "2020 ---" against "2020 Study of": an empty
\* text and one of stop words only, score 0.4
C23_Witness ==
    /\ Scored
    /\ version = "old"
    /\ texts = <<T_PUNCT, T_STOP>>
    /\ scored.a_norm = <<>>
    /\ scored.b_norm # <<>>
    /\ Eq(scored.score, <<4, 10>>)

\* the two normalized texts have the same tokens once the stop words are left out
OnlyStopWordsDiffer == Tokens(scored.a_norm) \ STOP = Tokens(scored.b_norm) \ STOP

\* C24, as claimed: the token overlap is computed without the stop words: two
\* normalized texts that differ in stop words only have token overlap 1.0
\* (stated for the calls that compute the overlap)
C24_OverlapIgnoresStopWords ==
    (Scored /\ OnlyStopWordsDiffer /\ scored.jac # None) => Eq(scored.jac, One)

\* C24, amended: only the old engine leaves the stop words out (token_set):
\* there such texts have token overlap 1.0. The two-master engine takes all
\* whitespace tokens of two non-empty normalized texts, so the overlap is
\* the share of the common tokens and is below 1.0 as soon as one text has a
\* stop word that the other has not
C24_OverlapIgnoresStopWordsInOldEngine ==
    Scored =>
        IF version = "old"
        THEN OnlyStopWordsDiffer => Eq(scored.jac, One)
        ELSE (scored.a_norm # <<>> /\ scored.b_norm # <<>>) =>
                /\ Eq(scored.jac, <<Cardinality(Tokens(scored.a_norm) \cap Tokens(scored.b_norm)),
                                    Cardinality(Tokens(scored.a_norm) \cup Tokens(scored.b_norm))>>)
                /\ Tokens(scored.a_norm) # Tokens(scored.b_norm) => Lt(scored.jac, One)

\* the old engine has scored "2020 Ab: cd" against "2019 the ab cd placebo":
\* the texts differ in two stop words and the token overlap is 1.0
C24_Witness ==
    /\ Scored
    /\ version = "old"
    /\ texts = <<T_AB, T_AB_PLACEBO>>
    /\ Tokens(scored.b_norm) \ Tokens(scored.a_norm) = {<<"t","h","e">>, <<"p","l","a","c","e","b","o">>}
    /\ Eq(scored.jac, One)

\* ========================================================================
\* Properties of the studies returned by parse_unsorted_studies (SpecUnsorted)
\* ========================================================================
\* line k as the loop sees it: in the current parser cut at the end marker
CutLine(k) ==
    IF version = "new" /\ HasMarker(lines[k])
    THEN SubSeq(lines[k], 1, Find(lines[k], END_MARKER) - 1)
    ELSE lines[k]

IsYearLineRead(k) == strip(CutLine(k)) # <<>> /\ YEAR_LINE(CutLine(k))
IsTextLineRead(k) == strip(CutLine(k)) # <<>> /\ ~YEAR_LINE(CutLine(k))

\* the year lines read, and the n-th of them
YearLinesRead == {k \in 1..Len(lines) : IsYearLineRead(k)}
NthYearLine(n) == CHOOSE k \in YearLinesRead : Cardinality({j \in YearLinesRead : j <= k}) = n

\* the last of the text lines that follow year line k without a gap
LastOfEntry(k) ==
    SetMax({j \in k..Len(lines) : \A i \in (k + 1)..j : IsTextLineRead(i)})

RECURSIVE JoinEntry(_, _)
JoinEntry(k, j) ==
    IF j = k THEN strip(CutLine(k)) ELSE JoinEntry(k, j - 1) \o <<" ">> \o strip(CutLine(j))

BeginsWithYear(s) == Len(s) >= 4 /\ \A i \in 1..4 : IsDigit(s[i])

\* C25: the strings returned are, in input order, one per year line read:
\* the year line and the text lines that follow it without a gap, joined by
\* single spaces; each begins with a 4-digit year, and a text line read
\* while no buffer is open (before the first year line, or behind a blank
\* line) is in none of them
C25_OneStudyPerYearLine ==
    pc = "done" =>
        /\ Len(unsorted.studies) = Cardinality(YearLinesRead)
        /\ \A n \in 1..Len(unsorted.studies) :
             /\ BeginsWithYear(unsorted.studies[n])
             /\ unsorted.studies[n]
                  = clean_space_tabs(JoinEntry(NthYearLine(n), LastOfEntry(NthYearLine(n))))

\* a study, a blank line, a text line and a second study: two studies are
\* returned and the text line is in neither
C25_Witness ==
    /\ pc = "done"
    /\ lines = <<UL_STUDY_2020, UL_BLANK, UL_TEXT, UL_STUDY_2021>>
    /\ unsorted.studies = <<UL_STUDY_2020, UL_STUDY_2021>>

\* ========================================================================
\* Properties of the years of the placed entries (Spec)
\* ========================================================================
\* the entry that the last iteration has appended to a bucket of the master
PlacedEntry ==
    LET r == audit_rows[pos - 1]
        b == Items(categorized, r.ph, r.cat)
    IN b[Len(b)]

\* C26, as claimed: in the two-master engine an entry placed in a bucket of
\* the master, by the primary or by the secondary pass, carries the year of
\* the candidate it was placed for
C26_PlacedEntryHasYearOfCandidate ==
    (version = "new" /\ pc = "loop" /\ pos > 1 /\ last.via \in {"primary", "secondary"}) =>
        PlacedEntry[1] = extract_year(unsorted_studies[pos - 1])

\* ========================================================================
\* Properties of the scores of the audit rows (Spec)
\* ========================================================================
\* C27: in the two-master engine the audit row of an unmatched candidate has
\* score 0.0, whatever score below the threshold the passes have found, and
\* a row with a score other than 0.0 names a master line, a phase and a
\* category
C27_UnmatchedRowsScoreZero ==
    version = "new" =>
        \A k \in 1..Len(audit_rows) :
            LET r == audit_rows[k] IN
            /\ (r.m = None \/ r.ph = "None" \/ r.cat = None) =>
                  (IsUncategorizedRow(r) /\ Eq(r.sc, Zero))
            /\ ~Eq(r.sc, Zero) => (r.m # None /\ r.ph # "None" /\ r.cat # None)

\* the primary pass has found a best score above 0 and below the threshold,
\* the candidate is unmatched and its row has score 0.0
C27_Witness ==
    /\ version = "new"
    /\ pc = "loop"
    /\ pos > 1
    /\ last.via = "none"
    /\ last.best_idx_c # 0
    /\ Lt(Zero, last.best_score_c)
    /\ Lt(last.best_score_c, threshold)
    /\ IsUncategorizedRow(audit_rows[pos - 1])
    /\ Eq(audit_rows[pos - 1].sc, Zero)

\* ========================================================================
\* Properties of the studies stored by parse_master_hierarchy (SpecMaster)
\* ========================================================================
IsMasterYearLine(k) ==
    strip(lines[k]) # <<>> /\ is_phase_header(lines[k]) = "None" /\ YEAR_LINE(lines[k])

\* the lines behind year line k that the parser adds to its study: none in
\* the current parser, the text lines that follow without a gap in the old one
LastOfStudy(k) ==
    IF version = "new" THEN k
    ELSE SetMax({j \in k..Len(lines) : \A i \in (k + 1)..j : IsPlainLine(lines[i])})

RECURSIVE JoinStudy(_, _)
JoinStudy(k, j) ==
    IF j = k THEN strip(lines[k]) ELSE JoinStudy(k, j - 1) \o <<" ">> \o strip(lines[j])

\* the year lines filed under phase ph and category cat, and the n-th of them
YearLinesOf(ph, cat) ==
    {k \in 1..Len(lines) : /\ IsMasterYearLine(k)
                           /\ MasterAfter(version, lines, k).current_phase = ph
                           /\ MasterAfter(version, lines, k).current_category = cat}
NthOf(S, n) == CHOOSE k \in S : Cardinality({j \in S : j <= k}) = n

\* C28: the returned taxonomy holds one study per year line of the input:
\* as many studies as year lines, each beginning with a 4-digit year, and
\* every bucket holds the studies of the year lines filed under it, in
\* input order
C28_OneStudyPerYearLine ==
    pc = "done" =>
        /\ Len(flatten_studies(master.phases))
             = Cardinality({k \in 1..Len(lines) : IsMasterYearLine(k)})
        /\ \A n \in 1..Len(flatten_studies(master.phases)) :
             BeginsWithYear(flatten_studies(master.phases)[n].s)
        /\ \A p \in 1..Len(master.phases) : \A c \in 1..Len(master.phases[p].cats) :
             LET of == YearLinesOf(master.phases[p].ph, master.phases[p].cats[c].cat)
                 studies == master.phases[p].cats[c].studies
             IN /\ Len(studies) = Cardinality(of)
                /\ \A n \in 1..Len(studies) :
                     studies[n] = clean_space_tabs(JoinStudy(NthOf(of, n), LastOfStudy(NthOf(of, n))))

\* a study before any header, then a category with two studies: three
\* studies in two buckets, the bucket of the category in input order
C28_Witness ==
    /\ pc = "done"
    /\ version = "new"
    /\ lines = <<ML_STUDY_2021, ML_CAT_A, ML_STUDY_2020, ML_STUDY_2021>>
    /\ Len(flatten_studies(master.phases)) = 3
    /\ Bucket(master.phases, PHASE_I_LABEL, UNCATEGORIZED) = <<ML_STUDY_2021>>
    /\ Bucket(master.phases, PHASE_I_LABEL, <<"C","a","t"," ","A">>) = <<ML_STUDY_2020, ML_STUDY_2021>>

\* ========================================================================
\* Properties of the One Click pipeline (SpecPipeline)
\* ========================================================================
\* the steps of a complete run, in order
AllSteps ==
    <<"extract", "resolve", "csv_to_master", "sort">>
        \o (IF gui.master_red THEN <<"merge">> ELSE <<>>)
        \o <<"inject">>
        \o (IF gui.do_split THEN <<"split">> ELSE <<>>)

ExitedWithZero(k) == launched[k].started /\ launched[k].returncode = 0

\* C29: the steps are launched in the order extract, resolve-no-year,
\* csv-to-master, sort, merge (if a master .docx is there), inject, split
\* (if asked for); a step is launched only when every step before it has
\* exited with status 0, and the success message is printed only when every
\* step of the run has
C29_StepsInOrderWhileAllExitZero ==
    gui # <<>> =>
        /\ Len(launched) <= Len(AllSteps)
        /\ \A k \in 1..Len(launched) :
             /\ launched[k].step = AllSteps[k]
             /\ k < Len(launched) => ExitedWithZero(k)
        /\ message = "Success" =>
             /\ Len(launched) = Len(AllSteps)
             /\ \A k \in 1..Len(launched) : ExitedWithZero(k)

\* the sorter has exited with status 2: it is the fourth and last step
\* launched, and there is no success message
C29_Witness ==
    /\ pc = "returned"
    /\ Len(launched) = 4
    /\ launched[4].step = "sort"
    /\ launched[4].returncode = 2
    /\ \A k \in 1..3 : ExitedWithZero(k)
    /\ message = "none"

\* ========================================================================
\* Properties of the two master files of csv_to_no_red_master (SpecCsv)
\* ========================================================================
LinesC == FileLines(out_c)
LinesB == FileLines(out_b)
StudiesC == flatten_studies(parse_master_hierarchy("new", LinesC))
StudiesB == flatten_studies(parse_master_hierarchy("new", LinesB))

\* C30: the Column C and the Column B master files have the same number of
\* lines, line k of both is the same header text or a study line of the same
\* year, and the taxonomies parsed from them have the same number of
\* studies, the i-th of one under the same phase and category and of the
\* same year as the i-th of the other
C30_MasterFilesLineAligned ==
    pc = "done" =>
        /\ Len(LinesC) = Len(LinesB)
        /\ \A k \in 1..Len(LinesC) :
             \/ ~YEAR_LINE(LinesC[k]) /\ LinesC[k] = LinesB[k]
             \/ /\ YEAR_LINE(LinesC[k]) /\ YEAR_LINE(LinesB[k])
                /\ extract_year(LinesC[k]) = extract_year(LinesB[k])
        /\ Len(StudiesC) = Len(StudiesB)
        /\ \A i \in 1..Len(StudiesC) :
             /\ StudiesC[i].ph = StudiesB[i].ph
             /\ StudiesC[i].cat = StudiesB[i].cat
             /\ extract_year(StudiesC[i].s) = extract_year(StudiesB[i].s)

====
